---- MODULE Spec2Model ----
(***************************************************************************)
(* Document structure extraction and contextual chunking                   *)
(* (backend/app/services/extract_structured_text.py and                    *)
(* backend/app/services/chunk_and_embed.py), with the persisted rows of    *)
(* one document (backend/app/db/models.py).                                *)
(*                                                                         *)
(* A text is a sequence of one-character strings, so that len(), strip(),  *)
(* the regular expressions and the joins are computed as the code computes *)
(* them.  Font sizes, page heights and ordinates are integers; a float     *)
(* comparison of the code is stated as the equivalent integer comparison.  *)
(***************************************************************************)
EXTENDS Integers, Sequences, FiniteSets, TLC

VARIABLES
    file,           \* what document.local_path names: a PDF, or NoFile
    page_count,     \* Document.page_count
    blocks,         \* committed DocumentBlock rows of the document, in id order
    chunks,         \* committed Chunk rows of the document, in id order
    assets,         \* DocumentAsset rows of the document, in id order
    status,         \* Document.status
    error_message,  \* Document.error_message
    processed_at,   \* Document.processed_at
    now,            \* the clock: the number of calls made so far
    call,           \* the last event: a call with its arguments and what its
                    \* collaborators did, or a change of the file; prev is
                    \* the event before it
    ret,            \* what the last call returned (or that it raised)
    built,          \* the last run of build_contextual_chunks, section by section
    pc              \* where each of the calls that run at the same time stands

vars == <<file, page_count, blocks, chunks, assets, status, error_message,
          processed_at, now, call, ret, built, pc>>

\* Python's None where a text, a bbox or a record may stand: no text holds
\* the character "None"
None == <<"None">>
\* None where an integer may stand: a page number (pages count from 1), a
\* timestamp (the clock starts at 1), a font size (font_size or None)
NoInt == 0

(***************************************************************************)
(* Characters and Python's str methods                                     *)
(***************************************************************************)
LowerChars == {"a", "b", "c"}
UpperChars == {"A", "B", "C"}
DigitChars == {"0", "1", "2", "3"}
SpaceChars == {" ", "\n"}
\* the ASCII members of LIST_PREFIX_RE's first class, [-*BULLET_CHARS]
BulletClass == {"-", "*"}

isspace(c) == c \in SpaceChars
isdigit(c) == c \in DigitChars
islower(c) == c \in LowerChars
isupper(c) == c \in UpperChars
isalpha(c) == islower(c) \/ isupper(c)
\* \w of the re module: letters, digits and the underscore
isword(c) == isalpha(c) \/ isdigit(c) \/ c = "_"

lower(c) ==
    CASE c = "A" -> "a"
      [] c = "B" -> "b"
      [] c = "C" -> "c"
      [] OTHER -> c

RECURSIVE lstrip(_)
lstrip(s) ==
    IF s = <<>> THEN s
    ELSE IF isspace(Head(s)) THEN lstrip(Tail(s)) ELSE s

RECURSIVE rstrip(_)
rstrip(s) ==
    IF s = <<>> THEN s
    ELSE IF isspace(s[Len(s)]) THEN rstrip(SubSeq(s, 1, Len(s) - 1)) ELSE s

strip(s) == rstrip(lstrip(s))

\* sep.join(parts)
RECURSIVE join(_, _)
join(sep, parts) ==
    IF parts = <<>> THEN <<>>
    ELSE IF Len(parts) = 1 THEN parts[1]
    ELSE parts[1] \o sep \o join(sep, Tail(parts))

startswith(s, p) == Len(s) >= Len(p) /\ SubSeq(s, 1, Len(p)) = p

NL == <<"\n">>
SP == <<" ">>

(***************************************************************************)
(* extract_structured_text.py: the pure helpers                            *)
(***************************************************************************)
\* WHITESPACE_RE.sub(" ", s): every maximal run of whitespace becomes one space
RECURSIVE WhitespaceSub(_, _)
WhitespaceSub(s, i) ==
    IF i > Len(s) THEN <<>>
    ELSE (IF isspace(s[i])
          THEN (IF i > 1 /\ isspace(s[i - 1]) THEN <<>> ELSE SP)
          ELSE <<s[i]>>) \o WhitespaceSub(s, i + 1)

_normalize_text(value) == strip(WhitespaceSub(value, 1))

\* a folio test that knows one digit only
OneDigitFolio(text) ==
    LET t == strip(text)
    IN  Len(t) = 1 /\ isdigit(t[1])

is_page_number(text) ==
    LET t == strip(text)
    IN  /\ Len(t) \in 1..3
        /\ \A i \in 1..Len(t) : isdigit(t[i])

\* BOILERPLATE_CLEAN_RE = [\d\W_]+ : digits, non-word characters, underscore
BoilerplateCleanClass(c) == isdigit(c) \/ ~isword(c) \/ c = "_"

RECURSIVE BoilerplateCleanSub(_, _)
BoilerplateCleanSub(s, i) ==
    IF i > Len(s) THEN <<>>
    ELSE (IF BoilerplateCleanClass(s[i])
          THEN (IF i > 1 /\ BoilerplateCleanClass(s[i - 1]) THEN <<>> ELSE SP)
          ELSE <<s[i]>>) \o BoilerplateCleanSub(s, i + 1)

_normalize_boilerplate(text) ==
    LET lowered == [i \in 1..Len(text) |-> lower(text[i])]
        cleaned == BoilerplateCleanSub(lowered, 1)
    IN  _normalize_text(cleaned)

\* flags & 2, or "bold" in the lowered font name
BoldFonts == {"Arial-BoldMT"}
_span_is_bold(span) == ((span.flags \div 2) % 2 = 1) \/ span.font \in BoldFonts

_starts_with_lower(text) ==
    LET stripped == lstrip(text)
    IN  stripped # <<>> /\ islower(stripped[1])

_starts_with_upper(text) ==
    LET stripped == lstrip(text)
    IN  stripped # <<>> /\ isupper(stripped[1])

_ends_with_period(text) ==
    LET stripped == rstrip(text)
    IN  stripped # <<>> /\ stripped[Len(stripped)] = "."

LetterCount(text) == Cardinality({i \in 1..Len(text) : isalpha(text[i])})
UpperCount(text) == Cardinality({i \in 1..Len(text) : isupper(text[i])})

\* _uppercase_ratio(text) < 0.5, the only use the code makes of the ratio:
\* the ratio is 0.0 without letters, upper / letters otherwise
_uppercase_ratio_below_half(text) ==
    LetterCount(text) = 0 \/ 2 * UpperCount(text) < LetterCount(text)

\* LIST_PREFIX_RE.match(text)
ListPrefixMatch(text) ==
    LET r == lstrip(text)
        alnum(c) == isalpha(c) \/ isdigit(c)
    IN  \/ Len(r) >= 2 /\ r[1] \in BulletClass /\ isspace(r[2])
        \/ \E k \in 1..3 :
              /\ Len(r) >= k + 2
              /\ \A i \in 1..k : isdigit(r[i])
              /\ r[k + 1] \in {".", ")"}
              /\ isspace(r[k + 2])
        \/ Len(r) >= 3 /\ isalpha(r[1]) /\ r[2] \in {".", ")"} /\ isspace(r[3])
        \/ \E k \in 1..3 :
              /\ Len(r) >= k + 3
              /\ r[1] = "("
              /\ \A i \in 2..(k + 1) : alnum(r[i])
              /\ r[k + 2] = ")"
              /\ isspace(r[k + 3])

TitleMaxLen == 80
BoldTitleMaxLen == 120

\* a classifier for which every bold line is a title candidate
ClassifyBoldAnyLength(text, font_size, is_bold, median2) ==
    IF ListPrefixMatch(text) THEN "LIST_ITEM"
    ELSE IF (median2 > 0 /\ 5 * font_size > 3 * median2) \/ is_bold
    THEN IF _starts_with_lower(text) THEN "PARAGRAPH"
         ELSE IF Len(text) > TitleMaxLen /\ _uppercase_ratio_below_half(text)
              THEN "PARAGRAPH"
              ELSE "TITLE"
    ELSE "PARAGRAPH"

\* median2 is twice the page's median font size (the median of an even number
\* of sizes is a half-integer); font_size > median * 1.2 is 5*font_size > 3*median2
_classify_text(text, font_size, is_bold, median2) ==
    IF ListPrefixMatch(text) THEN "LIST_ITEM"
    ELSE LET is_title ==
                 IF median2 > 0 /\ 5 * font_size > 3 * median2 THEN TRUE
                 ELSE is_bold /\ Len(text) < BoldTitleMaxLen
         IN  IF is_title
             THEN IF _starts_with_lower(text) THEN "PARAGRAPH"
                  ELSE IF Len(text) > TitleMaxLen /\ _uppercase_ratio_below_half(text)
                       THEN "PARAGRAPH"
                       ELSE "TITLE"
             ELSE "PARAGRAPH"

\* a close that commits the block with the type it was opened with
FinalizeKeepsType(block_type, text) == block_type

_finalize_block_type(block_type, text) ==
    IF block_type = "TITLE"
       /\ Len(text) > TitleMaxLen /\ _uppercase_ratio_below_half(text)
    THEN "PARAGRAPH"
    ELSE block_type

\* an append that joins every type of block with a space
AppendSpaceJoined(base, addition, block_type) ==
    IF base = <<>> THEN addition
    ELSE IF addition = <<>> THEN base
    ELSE _normalize_text(base \o SP \o addition)

_append_text(base, addition, block_type) ==
    IF base = <<>> THEN addition
    ELSE IF addition = <<>> THEN base
    ELSE IF block_type = "LIST_ITEM" THEN strip(base \o NL \o addition)
    ELSE _normalize_text(base \o SP \o addition)

\* a merger that looks at the types only
MergeWhenSameType(current, next_item) == current.block_type = next_item.block_type

_should_merge(current, next_item) ==
    LET next_type == next_item.block_type
        next_text == next_item.text
    IN  IF current.block_type # next_type THEN FALSE
        ELSE IF next_type = "TITLE"
             THEN IF current.page_number # next_item.page_number THEN FALSE
                  ELSE ~(Len(current.text) > TitleMaxLen \/ Len(next_text) > TitleMaxLen)
        ELSE IF next_type = "LIST_ITEM" THEN TRUE
        ELSE IF next_type = "PARAGRAPH"
             THEN ~(_ends_with_period(current.text) /\ _starts_with_upper(next_text))
        ELSE FALSE

(***************************************************************************)
(* _extract_page_items.  A page is [height, lines]: the lines of its text  *)
(* blocks (type 0) in reading order.  A line is [spans, bbox], a span      *)
(* [text, size, flags, font, bbox]; a bbox is <<y0, y1>> (the abscissae    *)
(* are read but never used) or None.                                       *)
(***************************************************************************)
Max(S) == CHOOSE m \in S : \A x \in S : x <= m
Min(S) == CHOOSE m \in S : \A x \in S : m <= x

\* the spans of a line with a non-empty normalized text
LineSpans(line) ==
    LET n == [i \in 1..Len(line.spans) |->
                 [text |-> _normalize_text(line.spans[i].text),
                  font_size |-> line.spans[i].size,
                  is_bold |-> _span_is_bold(line.spans[i]),
                  bbox |-> line.spans[i].bbox]]
    IN  SelectSeq(n, LAMBDA sp : sp.text # <<>>)

\* y0, y1 of a line: its bbox, else the extent of its spans' bboxes, else None
LineExtent(line, line_spans) ==
    LET boxed == {i \in 1..Len(line_spans) : line_spans[i].bbox # None}
    IN  IF line.bbox # None THEN line.bbox
        ELSE IF boxed # {}
             THEN <<Min({line_spans[i].bbox[1] : i \in boxed}),
                    Max({line_spans[i].bbox[2] : i \in boxed})>>
             ELSE None

\* y1 <= page_height * 0.1 or y0 >= page_height * (1 - 0.1)
InHeaderFooterBand(page_height, extent) ==
    /\ page_height > 0
    /\ extent # None
    /\ (10 * extent[2] <= page_height \/ 10 * extent[1] >= 9 * page_height)

\* an item that carries a boilerplate key wherever its line lies on the page
LineItemAlwaysKeyed(page_height, line, page_number) ==
    LET line_spans == LineSpans(line)
        line_text == _normalize_text(
                         join(SP, [i \in 1..Len(line_spans) |-> line_spans[i].text]))
    IN  IF line_spans = <<>> THEN <<>>
        ELSE IF line_text = <<>> THEN <<>>
        ELSE IF is_page_number(line_text) THEN <<>>
        ELSE << [page_number |-> page_number,
                 text |-> line_text,
                 font_size |-> Max({line_spans[i].font_size : i \in 1..Len(line_spans)}),
                 is_bold |-> \E i \in 1..Len(line_spans) : line_spans[i].is_bold,
                 is_header_footer |->
                     InHeaderFooterBand(page_height, LineExtent(line, line_spans)),
                 boilerplate_key |-> _normalize_boilerplate(line_text)] >>

\* the item of one line, or <<>> when the line is dropped
LineItem(page_height, line, page_number) ==
    LET line_spans == LineSpans(line)
        line_text == _normalize_text(
                         join(SP, [i \in 1..Len(line_spans) |-> line_spans[i].text]))
        is_header_footer == InHeaderFooterBand(page_height, LineExtent(line, line_spans))
    IN  IF line_spans = <<>> THEN <<>>
        ELSE IF line_text = <<>> THEN <<>>
        ELSE IF is_page_number(line_text) THEN <<>>
        ELSE << [page_number |-> page_number,
                 text |-> line_text,
                 font_size |-> Max({line_spans[i].font_size : i \in 1..Len(line_spans)}),
                 is_bold |-> \E i \in 1..Len(line_spans) : line_spans[i].is_bold,
                 is_header_footer |-> is_header_footer,
                 boilerplate_key |-> IF is_header_footer
                                     THEN _normalize_boilerplate(line_text)
                                     ELSE None] >>

RECURSIVE PageItemsFrom(_, _, _)
PageItemsFrom(page, page_number, i) ==
    IF i > Len(page.lines) THEN <<>>
    ELSE LineItem(page.height, page.lines[i], page_number)
         \o PageItemsFrom(page, page_number, i + 1)

_extract_page_items(page, page_number) == PageItemsFrom(page, page_number, 1)

(***************************************************************************)
(* extract_structured_text: boilerplate detection, classification, merging *)
(***************************************************************************)
BoilerplateMinPages == 6

\* a key counts when it is truthy: not None and not the empty string
KeyCounts(key) == key # None /\ key # <<>>

\* boilerplate_pages[key]: the pages on which key occurs in the band
boilerplate_pages(all_pages, key) ==
    {p \in 1..Len(all_pages) :
        \E i \in 1..Len(all_pages[p]) :
            /\ KeyCounts(all_pages[p][i].boilerplate_key)
            /\ all_pages[p][i].boilerplate_key = key}

AllKeys(all_pages) ==
    UNION {{all_pages[p][i].boilerplate_key :
               i \in {j \in 1..Len(all_pages[p]) :
                          KeyCounts(all_pages[p][j].boilerplate_key)}} :
           p \in 1..Len(all_pages)}

\* a detector that counts the occurrences of a key, not its pages
KeysByOccurrences(all_pages) ==
    {key \in AllKeys(all_pages) :
        Cardinality(UNION {{<<p, i>> : i \in {j \in 1..Len(all_pages[p]) :
                                                  all_pages[p][j].boilerplate_key = key}} :
                           p \in 1..Len(all_pages)})
            >= BoilerplateMinPages}

boilerplate_keys(all_pages) ==
    {key \in AllKeys(all_pages) :
        Cardinality(boilerplate_pages(all_pages, key)) >= BoilerplateMinPages}

filtered_items(items, keys) ==
    SelectSeq(items, LAMBDA item :
        ~(item.is_header_footer /\ item.boilerplate_key \in keys))

\* twice statistics.median(sizes); 0 when there is no positive size
Median2(items) ==
    LET pos == SelectSeq(items, LAMBDA item : item.font_size > 0)
        sizes == SortSeq([i \in 1..Len(pos) |-> pos[i].font_size],
                         LAMBDA a, b : a < b)
        n == Len(sizes)
    IN  IF n = 0 THEN 0
        ELSE IF n % 2 = 1 THEN 2 * sizes[(n + 1) \div 2]
        ELSE sizes[n \div 2] + sizes[n \div 2 + 1]

\* a block numbered from the page it lies on as well
NewBlockPageOffset(current, block_index) ==
    [page_number |-> current.page_number,
     block_index |-> block_index + current.page_number - 1,
     block_type |-> _finalize_block_type(current.block_type, current.text),
     text |-> current.text,
     font_size |-> IF current.font_size = 0 THEN NoInt ELSE current.font_size,
     is_bold |-> current.is_bold]

\* DocumentBlock(...) of the open block current, with the next block_index
NewBlock(current, block_index) ==
    [page_number |-> current.page_number,
     block_index |-> block_index,
     block_type |-> _finalize_block_type(current.block_type, current.text),
     text |-> current.text,
     font_size |-> IF current.font_size = 0 THEN NoInt ELSE current.font_size,
     is_bold |-> current.is_bold]

\* current: dict | None = None, before the first item of a page
NoCurrent == [block_type |-> "None"]

\* the fold over one page's filtered items: current is the open block (None
\* before the first item), out the blocks finalized so far in the document
RECURSIVE MergeFrom(_, _, _, _, _)
MergeFrom(items, median2, i, current, out) ==
    IF i > Len(items)
    THEN IF current # NoCurrent THEN Append(out, NewBlock(current, Len(out))) ELSE out
    ELSE LET item == items[i]
             block_type == _classify_text(item.text, item.font_size,
                                          item.is_bold, median2)
             next_item == [page_number |-> item.page_number,
                           block_type |-> block_type,
                           text |-> item.text,
                           font_size |-> item.font_size,
                           is_bold |-> item.is_bold]
         IN  IF current # NoCurrent /\ _should_merge(current, next_item)
             THEN MergeFrom(items, median2, i + 1,
                      [current EXCEPT
                          !.text = _append_text(current.text, item.text, block_type),
                          !.font_size = Max({current.font_size, item.font_size}),
                          !.is_bold = current.is_bold \/ item.is_bold],
                      out)
             ELSE MergeFrom(items, median2, i + 1, next_item,
                      IF current # NoCurrent
                      THEN Append(out, NewBlock(current, Len(out)))
                      ELSE out)

\* a page whose first line meets the block the page before left open
PageBlocksCarryOpen(items, keys, out) ==
    LET kept == filtered_items(items, keys)
        open == out[Len(out)]
    IN  IF items = <<>> THEN out
        ELSE IF kept = <<>> THEN out
        ELSE IF out = <<>> THEN MergeFrom(kept, Median2(kept), 1, NoCurrent, out)
        ELSE MergeFrom(kept, Median2(kept), 1,
                 [page_number |-> open.page_number, block_type |-> open.block_type,
                  text |-> open.text, font_size |-> open.font_size,
                  is_bold |-> open.is_bold],
                 SubSeq(out, 1, Len(out) - 1))

\* the blocks of one page appended to out; block_index is Len(out), the
\* number of blocks finalized so far
PageBlocks(items, keys, out) ==
    LET kept == filtered_items(items, keys)
    IN  IF items = <<>> THEN out
        ELSE IF kept = <<>> THEN out
        ELSE MergeFrom(kept, Median2(kept), 1, NoCurrent, out)

RECURSIVE BlocksFrom(_, _, _, _)
BlocksFrom(all_pages, keys, p, out) ==
    IF p > Len(all_pages) THEN out
    ELSE BlocksFrom(all_pages, keys, p + 1, PageBlocks(all_pages[p], keys, out))

\* all_pages of a PDF: the items of each page, page numbers from 1
AllPages(pdf) == [p \in 1..Len(pdf) |-> _extract_page_items(pdf[p], p)]

\* an extraction that continues the numbering of the rows it finds
BlocksNumberedAfterExisting(pdf) ==
    LET all_pages == AllPages(pdf)
        rows == BlocksFrom(all_pages, boilerplate_keys(all_pages), 1, blocks)
    IN  SubSeq(rows, Len(blocks) + 1, Len(rows))

\* blocks_to_insert of extract_structured_text for a PDF that reads without error
blocks_to_insert(pdf) ==
    LET all_pages == AllPages(pdf)
    IN  BlocksFrom(all_pages, boilerplate_keys(all_pages), 1, <<>>)

(***************************************************************************)
(* chunk_and_embed.py: the pure part                                       *)
(***************************************************************************)
DEFAULT_MAX_CHARS == 2000
\* The number of texts sent to the embedding collaborator at once.  The source
\* sets DEFAULT_BATCH_SIZE = 100; the batch loop is the same for every size,
\* and the model runs it with a small one so that a document of a few chunks
\* spans two batches.
BatchSize == 2

chunk_normalize_text(value) == strip(value)

\* a composition that leaves the title out
ComposeWithoutTitle(title_text, units) ==
    strip(join(NL, SelectSeq([i \in 1..Len(units) |-> units[i].text],
                             LAMBDA t : t # <<>>)))

_compose_chunk_text(title_text, units) ==
    LET texts == [i \in 1..Len(units) |-> units[i].text]
        parts == (IF title_text # <<>> THEN <<title_text>> ELSE <<>>)
                 \o SelectSeq(texts, LAMBDA t : t # <<>>)
    IN  strip(join(NL, parts))

\* a seed that carries the whole text of the last unit
OverlapSeedWholeUnit(last_unit) ==
    << [text |-> last_unit.text, paragraph_text |-> last_unit.paragraph_text] >>

\* the unit that seeds the chunk opened after an overflow
OverlapSeed(last_unit) ==
    IF last_unit.paragraph_text # None /\ last_unit.paragraph_text # <<>>
    THEN << [text |-> last_unit.paragraph_text,
             paragraph_text |-> last_unit.paragraph_text] >>
    ELSE <<>>

\* a loop that opens the chunk after an overflow with the seed alone
RECURSIVE SplitDroppingFrom(_, _, _, _, _, _)
SplitDroppingFrom(title_text, units, max_chars, i, current_units, closed) ==
    IF i > Len(units)
    THEN IF current_units # <<>>
         THEN Append(closed, [units |-> current_units, why |-> "end", next |-> 0,
                              text |-> _compose_chunk_text(title_text, current_units)])
         ELSE closed
    ELSE LET unit == units[i]
             candidate_text == _compose_chunk_text(title_text,
                                                   Append(current_units, unit))
         IN  IF current_units # <<>> /\ Len(candidate_text) > max_chars
             THEN SplitDroppingFrom(title_text, units, max_chars, i + 1,
                      OverlapSeed(current_units[Len(current_units)]),
                      Append(closed,
                          [units |-> current_units, why |-> "overflow", next |-> i,
                           text |-> _compose_chunk_text(title_text, current_units)]))
             ELSE SplitDroppingFrom(title_text, units, max_chars, i + 1,
                      Append(current_units, unit), closed)

\* The loop of _split_units_with_overlap from unit i on.  closed holds one
\* record per chunk closed so far: its units, its text, why it was closed
\* ("overflow" or "end") and, for an overflow, the index of the unit that
\* did not fit.
RECURSIVE SplitFrom(_, _, _, _, _, _)
SplitFrom(title_text, units, max_chars, i, current_units, closed) ==
    IF i > Len(units)
    THEN IF current_units # <<>>
         THEN Append(closed, [units |-> current_units, why |-> "end", next |-> 0,
                              text |-> _compose_chunk_text(title_text, current_units)])
         ELSE closed
    ELSE LET unit == units[i]
             candidate_text == _compose_chunk_text(title_text,
                                                   Append(current_units, unit))
         IN  IF current_units # <<>> /\ Len(candidate_text) > max_chars
             THEN SplitFrom(title_text, units, max_chars, i + 1,
                      Append(OverlapSeed(current_units[Len(current_units)]), unit),
                      Append(closed,
                          [units |-> current_units, why |-> "overflow", next |-> i,
                           text |-> _compose_chunk_text(title_text, current_units)]))
             ELSE SplitFrom(title_text, units, max_chars, i + 1,
                      Append(current_units, unit), closed)

\* a splitter that returns the stripped title whether it is empty or not
SplitAlwaysEmits(title_text, units, max_chars) ==
    IF units = <<>>
    THEN << [units |-> <<>>, why |-> "end", next |-> 0, text |-> strip(title_text)] >>
    ELSE SelectSeq(SplitFrom(title_text, units, max_chars, 1, <<>>, <<>>),
                   LAMBDA c : c.text # <<>>)

\* the chunks closed by _split_units_with_overlap, in order; an empty
\* chunk_text is not appended to chunks
SplitTrace(title_text, units, max_chars) ==
    IF units = <<>>
    THEN IF title_text # <<>>
         THEN << [units |-> <<>>, why |-> "end", next |-> 0,
                  text |-> strip(title_text)] >>
         ELSE <<>>
    ELSE SelectSeq(SplitFrom(title_text, units, max_chars, 1, <<>>, <<>>),
                   LAMBDA c : c.text # <<>>)

_split_units_with_overlap(title_text, units, max_chars) ==
    LET trace == SplitTrace(title_text, units, max_chars)
    IN  [i \in 1..Len(trace) |-> trace[i].text]

\* the text of one asset, <<>> when the asset contributes nothing; an asset
\* is [page_number, caption_text, table_content], an absent text being <<>>
AssetText(asset) ==
    LET caption == chunk_normalize_text(asset.caption_text)
        table_content == chunk_normalize_text(asset.table_content)
        label == <<"R", "e", "l", "a", "t", "e", "d", " ", "f", "i", "g", "u", "r", "e",
                   "/", "t", "a", "b", "l", "e", ":">>
        lines == (IF caption # <<>> THEN <<label \o SP \o caption>>
                  ELSE IF table_content # <<>> THEN <<label>> ELSE <<>>)
                 \o (IF table_content # <<>> THEN <<table_content>> ELSE <<>>)
    IN  IF asset.page_number = NoInt THEN <<>>
        ELSE IF caption = <<>> /\ table_content = <<>> THEN <<>>
        ELSE strip(join(NL, lines))

\* _build_asset_map(db, document_id)[page], [] for a page without entry
_build_asset_map(asset_rows, page) ==
    LET on_page == SelectSeq(asset_rows,
                       LAMBDA a : a.page_number = page /\ AssetText(a) # <<>>)
    IN  [i \in 1..Len(on_page) |-> AssetText(on_page[i])]

\* the section loop of build_contextual_chunks (lines 117-131)
RECURSIVE SectionsFrom(_, _, _, _)
SectionsFrom(block_rows, i, current, sections) ==
    IF i > Len(block_rows)
    THEN IF current.title # <<>> \/ current.blocks # <<>>
         THEN Append(sections, current) ELSE sections
    ELSE LET block == block_rows[i]
         IN  IF block.block_type = "TITLE"
             THEN SectionsFrom(block_rows, i + 1,
                      [page |-> block.page_number, title |-> block.text,
                       blocks |-> <<>>],
                      IF current.title # <<>> \/ current.blocks # <<>>
                      THEN Append(sections, current) ELSE sections)
             ELSE SectionsFrom(block_rows, i + 1,
                      [current EXCEPT
                          !.page = IF current.page = NoInt THEN block.page_number
                                   ELSE current.page,
                          !.blocks = Append(current.blocks, block)],
                      sections)

\* a section loop that keeps the sections with content blocks only
SectionsWithBlocks(block_rows) ==
    SelectSeq(SectionsFrom(block_rows, 1,
                  [page |-> NoInt, title |-> <<>>, blocks |-> <<>>], <<>>),
              LAMBDA section : section.blocks # <<>>)

\* a section loop that anchors a section at its first content block
SectionsAnchoredAtContent(block_rows) ==
    LET found == SectionsFrom(block_rows, 1,
                     [page |-> NoInt, title |-> <<>>, blocks |-> <<>>], <<>>)
    IN  [k \in 1..Len(found) |->
            [found[k] EXCEPT !.page = IF found[k].blocks # <<>>
                                      THEN found[k].blocks[1].page_number ELSE @]]

Sections(block_rows) ==
    SectionsFrom(block_rows, 1, [page |-> NoInt, title |-> <<>>, blocks |-> <<>>], <<>>)

\* the segments of a section after its title segment (content_segments)
RECURSIVE SegmentsFrom(_, _, _, _)
SegmentsFrom(section_blocks, i, list_buffer, segments) ==
    LET flushed == IF list_buffer # <<>>
                   THEN Append(segments, [type |-> "LIST_ITEM",
                                          text |-> join(NL, list_buffer)])
                   ELSE segments
    IN  IF i > Len(section_blocks) THEN flushed
        ELSE LET block == section_blocks[i]
                 text == chunk_normalize_text(block.text)
             IN  IF text = <<>>
                 THEN SegmentsFrom(section_blocks, i + 1, list_buffer, segments)
                 ELSE IF block.block_type = "LIST_ITEM"
                 THEN SegmentsFrom(section_blocks, i + 1,
                                   Append(list_buffer, text), segments)
                 ELSE SegmentsFrom(section_blocks, i + 1, <<>>,
                          Append(flushed, [type |-> block.block_type, text |-> text]))

content_segments(section) == SegmentsFrom(section.blocks, 1, <<>>, <<>>)

SegmentsText(unit_segments) ==
    strip(join(NL, [i \in 1..Len(unit_segments) |-> unit_segments[i].text]))

\* the unit loop of build_contextual_chunks (lines 162-174)
RECURSIVE UnitsFrom(_, _, _, _)
UnitsFrom(segments, i, unit_segments, units) ==
    IF i > Len(segments)
    THEN IF unit_segments # <<>> /\ SegmentsText(unit_segments) # <<>>
         THEN Append(units, [text |-> SegmentsText(unit_segments),
                             paragraph_text |-> None])
         ELSE units
    ELSE LET run == Append(unit_segments, segments[i])
         IN  IF segments[i].type = "PARAGRAPH"
             THEN UnitsFrom(segments, i + 1, <<>>,
                      IF SegmentsText(run) # <<>>
                      THEN Append(units, [text |-> SegmentsText(run),
                                          paragraph_text |-> segments[i].text])
                      ELSE units)
             ELSE UnitsFrom(segments, i + 1, run, units)

SectionUnits(section) == UnitsFrom(content_segments(section), 1, <<>>, <<>>)

\* a section whose chunks carry the page of its last content block
SectionChunksOnContentPage(section, asset_rows, max_chars) ==
    LET page == IF section.blocks # <<>>
                THEN section.blocks[Len(section.blocks)].page_number
                ELSE IF section.page = NoInt THEN 1 ELSE section.page
        title_text == chunk_normalize_text(section.title)
        units == SectionUnits(section)
        trace == SplitTrace(title_text, units, max_chars)
        split == _split_units_with_overlap(title_text, units, max_chars)
        section_chunks == IF split = <<>> /\ title_text # <<>>
                          THEN <<title_text>> ELSE split
        assets_text == strip(join(NL, _build_asset_map(asset_rows, page)))
        n == Len(section_chunks)
    IN  [page |-> page,
         title_text |-> title_text,
         units |-> units,
         trace |-> trace,
         texts |-> IF assets_text # <<>> /\ n > 0
                   THEN [section_chunks EXCEPT
                            ![n] = strip(section_chunks[n] \o NL \o assets_text)]
                   ELSE section_chunks]

\* One section of build_contextual_chunks (lines 135-186): its page, its
\* title, its units, the splitter's trace and the final texts of its chunks.
SectionChunks(section, asset_rows, max_chars) ==
    LET page == IF section.page = NoInt THEN 1 ELSE section.page
        title_text == chunk_normalize_text(section.title)
        units == SectionUnits(section)
        trace == SplitTrace(title_text, units, max_chars)
        split == _split_units_with_overlap(title_text, units, max_chars)
        section_chunks == IF split = <<>> /\ title_text # <<>>
                          THEN <<title_text>> ELSE split
        assets_text == strip(join(NL, _build_asset_map(asset_rows, page)))
        n == Len(section_chunks)
    IN  [page |-> page,
         title_text |-> title_text,
         units |-> units,
         trace |-> trace,
         texts |-> IF assets_text # <<>> /\ n > 0
                   THEN [section_chunks EXCEPT
                            ![n] = strip(section_chunks[n] \o NL \o assets_text)]
                   ELSE section_chunks]

\* blocks ordered by block_index
OrderedBlocks(block_rows) ==
    SortSeq(block_rows, LAMBDA a, b : a.block_index < b.block_index)

\* the sections of build_contextual_chunks with their chunks
BuiltSections(block_rows, asset_rows, max_chars) ==
    LET sections == Sections(OrderedBlocks(block_rows))
    IN  IF block_rows = <<>> THEN <<>>
        ELSE [k \in 1..Len(sections) |->
                 SectionChunks(sections[k], asset_rows, max_chars)]

RECURSIVE Flatten(_)
Flatten(built_sections) ==
    IF built_sections = <<>> THEN <<>>
    ELSE [i \in 1..Len(built_sections[1].texts) |->
             [page |-> built_sections[1].page, text |-> built_sections[1].texts[i]]]
         \o Flatten(Tail(built_sections))

\* the list of chunk dicts build_contextual_chunks returns
build_contextual_chunks(block_rows, asset_rows, max_chars) ==
    Flatten(BuiltSections(block_rows, asset_rows, max_chars))

(***************************************************************************)
(* The persisted state of one document and the two entry points            *)
(***************************************************************************)
MaxCalls == 3

NoFile == <<"NoFile">>

NoPrev == [op |-> "none", overwrite |-> FALSE, outcome |-> "none"]

\* the document's rows and fields as a call finds them
Before ==
    [blocks |-> blocks, chunks |-> chunks, status |-> status,
     error_message |-> error_message, processed_at |-> processed_at]

NoCall == [op |-> "none", overwrite |-> FALSE, max_chars |-> 0, fault |-> "none",
           commits |-> 0, prev |-> NoPrev,
           before |-> [blocks |-> <<>>, chunks |-> <<>>, status |-> "pending",
                       error_message |-> "None", processed_at |-> NoInt]]

NoRet == [outcome |-> "none", pages_processed |-> 0, blocks_created |-> 0,
          titles_count |-> 0, list_items_count |-> 0, chunks_created |-> 0]

\* a summary that counts the page the call stopped at
RetCountsOnePage(outcome) == [NoRet EXCEPT !.outcome = outcome, !.pages_processed = 1]

ZeroRet(outcome) == [NoRet EXCEPT !.outcome = outcome]

\* the event that follows the current one
Event(op, overwrite, max_chars, fault) ==
    [op |-> op, overwrite |-> overwrite, max_chars |-> max_chars, fault |-> fault,
     commits |-> 0,
     prev |-> [op |-> call.op, overwrite |-> call.overwrite, outcome |-> ret.outcome],
     before |-> Before]

\* a commit after each write of the call: the delete, the rows, the status
CommitEachWrite(event) == [event EXCEPT !.commits = @ + 3]

\* db.commit(): the writes the call has issued so far become durable together
Commit(event) == [event EXCEPT !.commits = @ + 1]

\* str(exc): the message the exception carries; a MemoryError carries none
ExcMessage(fault) == IF fault = "memory" THEN "" ELSE "str(exc)"

\* the length of an error text that is longer than a message may be
LongErrorLen == 300

\* len(str(exc)): the PDF library words its errors as it likes; the text of a
\* page that fails to load is the long one here, that of a file that does
\* not open a short one
ExcLength(fault) ==
    CASE fault = "memory" -> 0
      [] fault = "load_page" -> LongErrorLen
      [] OTHER -> 8

\* len(document.error_message) after the except branch, which stores str(exc)
\* as it is
StoredMessageLength(fault) == ExcLength(fault)

CountType(rows, type) ==
    Cardinality({i \in 1..Len(rows) : rows[i].block_type = type})

\* not document.local_path or not os.path.isfile(document.local_path)
LocalPathMissing == file = NoFile

\* the early return of extract_structured_text when blocks exist (lines 221-235)
ExtractSkips(overwrite) == ~overwrite /\ blocks # <<>>

\* a delete that leaves the rows in place
AfterDeleteKeepsRows(overwrite, rows) == rows

\* the rows of the document left by the delete issued when overwrite is set
AfterDelete(overwrite, rows) == IF overwrite THEN <<>> ELSE rows

\* What the commit of the except branch makes durable.  The session is never
\* rolled back: the delete already issued (and, for chunks, the rows already
\* added) belong to the transaction this commit ends.
CommitOnFailure(pending_rows) == pending_rows

\* extract_structured_text(document_id, db, overwrite).  fault is what the PDF
\* library does in this call: "none", or an exception raised by fitz.open
\* ("open") or by load_page ("load_page"), or the MemoryError the interpreter
\* raises while fitz.open reads the file ("memory").
extract_structured_text(overwrite, fault) ==
    /\ now < MaxCalls
    /\ fault = "load_page" => (file # NoFile /\ Len(file) > 0)
    /\ now' = now + 1
    /\ UNCHANGED <<file, assets, chunks, built, pc>>
    /\ IF LocalPathMissing
       THEN /\ status' = "failed"
            \* the code local_path_missing, which the message starts with
            \* (the path follows it)
            /\ error_message' = "local_path_missing"
            /\ processed_at' = now + 1
            /\ UNCHANGED <<blocks, page_count>>
            /\ call' = Commit(Event("extract", overwrite, 0, "none"))
            /\ ret' = ZeroRet("failed")
       ELSE IF ExtractSkips(overwrite)
       THEN /\ UNCHANGED <<blocks, page_count, status, error_message, processed_at>>
            /\ call' = Event("extract", overwrite, 0, "none")
            /\ ret' = ZeroRet("skipped")
       ELSE IF fault # "none"
       THEN /\ blocks' = CommitOnFailure(AfterDelete(overwrite, blocks))
            /\ page_count' = IF fault = "load_page" THEN Len(file) ELSE page_count
            /\ status' = "failed"
            /\ error_message' = ExcMessage(fault)
            /\ processed_at' = now + 1
            /\ call' = Commit(Event("extract", overwrite, 0, fault))
            /\ ret' = ZeroRet("failed")
       ELSE LET new_rows == blocks_to_insert(file)
            IN  /\ blocks' = AfterDelete(overwrite, blocks) \o new_rows
                /\ page_count' = Len(file)
                /\ status' = "text_structured"
                /\ error_message' = "None"
                /\ processed_at' = now + 1
                /\ call' = Commit(Event("extract", overwrite, 0, "none"))
                /\ ret' = [NoRet EXCEPT
                              !.outcome = "ok",
                              !.pages_processed = Len(file),
                              !.blocks_created = Len(new_rows),
                              !.titles_count = CountType(new_rows, "TITLE"),
                              !.list_items_count = CountType(new_rows, "LIST_ITEM")]

\* what _embed_texts_openai does for one batch: it raises ("error"), returns
\* one vector per text ("ok"), a vector whose length is not VECTOR_DIM
\* ("baddim"), one vector too few ("short") or one too many ("extra")
EmbedKinds == {"ok", "error", "baddim", "short", "extra"}

NumBatches(n) == (n + BatchSize - 1) \div BatchSize

\* The batch loop of embed_and_store_chunks from batch b on (lines 267-285):
\* added are the Chunk rows db.add has queued so far, fault the exception
\* that ends the loop: the collaborator's ("error"), the ValueError of the
\* dimension test ("baddim") or the IndexError of chunk_dicts[start + offset]
\* ("index").
RECURSIVE EmbedFrom(_, _, _, _)
EmbedFrom(chunk_dicts, outcomes, b, added) ==
    LET start == (b - 1) * BatchSize
        n == IF Len(chunk_dicts) - start < BatchSize
             THEN Len(chunk_dicts) - start ELSE BatchSize
        kind == outcomes[b]
        k == CASE kind = "short" -> n - 1
               [] kind = "extra" -> n + 1
               [] OTHER -> n
        \* chunk_dicts[start + offset] exists for the offsets below in_range
        in_range == IF start + k <= Len(chunk_dicts) THEN k ELSE Len(chunk_dicts) - start
        rows == SubSeq(chunk_dicts, start + 1, start + in_range)
    IN  IF start >= Len(chunk_dicts)
        THEN [added |-> added, failed |-> FALSE, fault |-> "none"]
        ELSE IF kind \in {"error", "baddim"}
        THEN [added |-> added, failed |-> TRUE, fault |-> kind]
        ELSE IF in_range < k
        THEN [added |-> added \o rows, failed |-> TRUE, fault |-> "index"]
        ELSE EmbedFrom(chunk_dicts, outcomes, b + 1, added \o rows)

\* the early return of embed_and_store_chunks when chunks exist (lines 230-236)
EmbedSkips(overwrite) == chunks # <<>> /\ ~overwrite

\* embed_and_store_chunks(document_id, db, model, overwrite, max_chars), with
\* api_key whether OPENAI_API_KEY is set and outcomes what the embedding
\* collaborator does for each batch
embed_and_store_chunks(overwrite, max_chars, api_key, outcomes) ==
    LET sections == BuiltSections(blocks, assets, max_chars)
        chunk_dicts == Flatten(sections)
        run == EmbedFrom(chunk_dicts, outcomes, 1, <<>>)
        this == Event("embed", overwrite, max_chars, "none")
    IN  /\ now < MaxCalls
        /\ now' = now + 1
        /\ UNCHANGED <<file, assets, blocks, page_count, pc>>
        /\ IF EmbedSkips(overwrite)
           THEN /\ UNCHANGED <<chunks, status, error_message, processed_at, built>>
                /\ call' = this
                /\ ret' = ZeroRet("skipped")
           ELSE IF ~api_key
           THEN /\ UNCHANGED <<chunks, status, error_message, processed_at, built>>
                /\ call' = this
                /\ ret' = ZeroRet("raised")
           ELSE IF chunk_dicts = <<>>
           THEN /\ chunks' = AfterDelete(overwrite, chunks)
                /\ status' = "embedded"
                /\ error_message' = "None"
                /\ processed_at' = now + 1
                /\ built' = sections
                /\ call' = Commit(this)
                /\ ret' = ZeroRet("ok")
           ELSE IF run.failed
           THEN /\ chunks' = CommitOnFailure(AfterDelete(overwrite, chunks) \o run.added)
                /\ status' = "failed"
                /\ error_message' = ExcMessage(run.fault)
                /\ processed_at' = now + 1
                /\ built' = sections
                /\ call' = Commit([this EXCEPT !.fault = run.fault])
                /\ ret' = ZeroRet("failed")
           ELSE /\ chunks' = AfterDelete(overwrite, chunks) \o run.added
                /\ status' = "embedded"
                /\ error_message' = "None"
                /\ processed_at' = now + 1
                /\ built' = sections
                /\ call' = Commit([this EXCEPT !.fault =
                               IF \E b \in 1..NumBatches(Len(chunk_dicts)) :
                                      outcomes[b] \in {"short", "extra"}
                               THEN "miscount" ELSE "none"])
                /\ ret' = [ZeroRet("ok") EXCEPT !.chunks_created = Len(run.added)]

\* build_contextual_chunks(document_id, db, max_chars) on the persisted blocks
\* and assets, as a caller may run it on its own
BuildChunks(max_chars) ==
    /\ call.op = "none"
    /\ built' = BuiltSections(blocks, assets, max_chars)
    /\ call' = Event("build", FALSE, max_chars, "none")
    /\ UNCHANGED <<file, page_count, blocks, chunks, assets, status, error_message,
                   processed_at, now, ret, pc>>

(***************************************************************************)
(* Inputs                                                                  *)
(***************************************************************************)
BodyBox == <<40, 50>>
HeaderBox == <<2, 8>>
FooterBox == <<92, 98>>

Span(text, size, is_bold, box) ==
    [text |-> text, size |-> size, flags |-> IF is_bold THEN 2 ELSE 0,
     font |-> "Helvetica", bbox |-> box]

Line(text, size, is_bold, box) ==
    [spans |-> <<Span(text, size, is_bold, box)>>, bbox |-> box]

\* a running header, bold: TITLE when it is kept; its key is "ab"
HeaderAB1 == Line(<<"A", "B", " ", "1">>, 12, TRUE, HeaderBox)
\* another text with the same key "ab", in the footer band, in two spans of
\* which the second is bold by its font, the line without a bbox of its own:
\* TITLE too when it is kept
FooterAB2 ==
    [spans |-> <<Span(<<"A", "b", "-">>, 10, FALSE, FooterBox),
                 [Span(<<" ", "2">>, 10, FALSE, FooterBox) EXCEPT
                     !.font = "Arial-BoldMT"]>>,
     bbox |-> None]
\* a header of digits and punctuation only: its key is the empty string
HeaderNum == Line(<<"1", "-", "2">>, 10, FALSE, HeaderBox)
\* a folio in the footer band
Folio == Line(<<"1", "2">>, 10, FALSE, FooterBox)
BodyPara == Line(<<"A", "a", ".">>, 10, FALSE, BodyBox)
BodyTitle == Line(<<"B">>, 10, TRUE, BodyBox)
BodyItem == Line(<<"-", " ", "c">>, 10, FALSE, BodyBox)
\* a number of two digits between spaces, in the body of the page
BodyFolio == Line(<<" ", "3", "1", " ">>, 10, FALSE, BodyBox)

Page(lines) == [height |-> 100, lines |-> lines]

PageEmpty == Page(<<>>)
PageHeadBody == Page(<<HeaderAB1, BodyPara, FooterAB2, Folio>>)
PageFootOnly == Page(<<FooterAB2>>)
PageNumHead == Page(<<HeaderNum, BodyTitle, BodyFolio, BodyItem>>)

PageTemplates == {PageEmpty, PageHeadBody, PageFootOnly, PageNumHead}

\* the PDFs of the lifecycle specification
DocA == <<PageHeadBody, PageNumHead>>
DocB == <<PageFootOnly, PageEmpty, PageNumHead>>
\* one title per page, one page more than a batch holds
DocBig == [p \in 1..(BatchSize + 1) |-> Page(<<BodyTitle>>)]

Files == {NoFile, DocA, DocB, DocBig}

Asset(page_number, caption_text, table_content) ==
    [page_number |-> page_number, caption_text |-> caption_text,
     table_content |-> table_content]

AssetChoices ==
    { <<>>,
      <<Asset(1, <<"c">>, <<>>)>>,
      <<Asset(NoInt, <<"a">>, <<>>), Asset(2, <<>>, <<"b">>), Asset(2, <<"c">>, <<"b">>)>> }

\* the calls that run on the document at the same time, each in a session of
\* its own; under serialized calls they stay idle
Workers == {1, 2}

InitDocument ==
    /\ pc = [w \in Workers |-> "idle"]
    /\ page_count = NoInt
    /\ status = "pending"
    /\ error_message = "None"
    /\ processed_at = NoInt
    /\ now = 0
    /\ call = NoCall
    /\ ret = NoRet
    /\ built = <<>>

(***************************************************************************)
(* Spec: the life of one document under serialized calls                   *)
(***************************************************************************)
Init ==
    /\ file \in Files
    /\ assets \in {<<>>, <<Asset(1, <<"c">>, <<>>)>>}
    /\ blocks = <<>>
    /\ chunks = <<>>
    /\ InitDocument

\* the file that local_path names is replaced or removed between two calls
ChangeFile ==
    /\ now < MaxCalls
    /\ call.op # "file_changed"
    /\ file' \in Files \ {file}
    /\ call' = Event("file_changed", FALSE, 0, "none")
    /\ ret' = NoRet
    /\ UNCHANGED <<page_count, blocks, chunks, assets, status, error_message,
                   processed_at, now, built, pc>>

Faults == {"none", "open", "load_page", "memory"}

\* what the collaborator may do in a call: one outcome for each batch the
\* call sends
BatchOutcomes(max_chars) ==
    [1..NumBatches(Len(build_contextual_chunks(blocks, assets, max_chars)))
        -> EmbedKinds]

Next ==
    \/ \E overwrite \in BOOLEAN, fault \in Faults :
           extract_structured_text(overwrite, fault)
    \/ \E overwrite \in BOOLEAN, api_key \in BOOLEAN :
           \E outcomes \in BatchOutcomes(DEFAULT_MAX_CHARS) :
               embed_and_store_chunks(overwrite, DEFAULT_MAX_CHARS, api_key, outcomes)
    \/ ChangeFile

Spec == Init /\ [][Next]_vars

(***************************************************************************)
(* SpecExtract: one extraction of a PDF drawn from the page templates      *)
(***************************************************************************)
ExtractPages == 6

InitExtract ==
    /\ file \in [1..ExtractPages -> PageTemplates]
    /\ assets = <<>>
    /\ blocks = <<>>
    /\ chunks = <<>>
    /\ InitDocument

\* the document has no block yet and the PDF reads without error; the
\* failures of a call are the matter of Spec
NextExtract ==
    \E overwrite \in BOOLEAN :
        /\ now = 0
        /\ extract_structured_text(overwrite, "none")

SpecExtract == InitExtract /\ [][NextExtract]_vars

(***************************************************************************)
(* SpecBand: one extraction of a PDF whose body repeats the text of its    *)
(* running header                                                          *)
(***************************************************************************)
BandPages == 6

\* the text of HeaderAB1 in the body of the page, in the size of the body
BodyAB == Line(<<"A", "B", " ", "1">>, 10, FALSE, BodyBox)

PageHeadSame == Page(<<HeaderAB1, BodyPara, BodyAB>>)
PageBodyOnly == Page(<<BodyPara, BodyAB>>)

BandTemplates == {PageHeadSame, PageBodyOnly, PageFootOnly}

InitBand ==
    /\ file \in [1..BandPages -> BandTemplates]
    /\ assets = <<>>
    /\ blocks = <<>>
    /\ chunks = <<>>
    /\ InitDocument

SpecBand == InitBand /\ [][NextExtract]_vars

(***************************************************************************)
(* SpecMerge: one extraction of a PDF of two pages whose lines follow one   *)
(* another in every order of types                                         *)
(***************************************************************************)
MaxLines == 3

BodyLine(text, is_bold) == Line(text, 10, is_bold, BodyBox)

\* a numbered list item
ItemNumbered == BodyLine(<<"1", ")", " ", "a">>, FALSE)
\* a paragraph line that does not end its sentence
ParaOpen == BodyLine(<<"A", "b">>, FALSE)
\* a paragraph line that starts in lowercase and ends with a period
ParaLower == BodyLine(<<"a", "b", ".">>, FALSE)
\* bold lines of a little more than half of TitleMaxLen characters: two of
\* them merged are longer than TitleMaxLen.  One is mostly lowercase, the
\* other uppercase throughout.
TitleHalfLower ==
    BodyLine(<<"A">> \o [i \in 1..(TitleMaxLen \div 2) |-> "a"], TRUE)
TitleHalfUpper ==
    BodyLine([i \in 1..(TitleMaxLen \div 2 + 1) |-> "B"], TRUE)
\* a bold line of uppercase letters, longer than TitleMaxLen
TitleLong == BodyLine([i \in 1..(TitleMaxLen + 1) |-> "C"], TRUE)

LineKinds ==
    {BodyItem, ItemNumbered, BodyPara, ParaOpen, ParaLower,
     TitleHalfLower, TitleHalfUpper, TitleLong}

\* lines that would merge into an open block of their type on the same page
NextPageKinds == {BodyItem, ParaLower, BodyTitle}

\* the first page holds up to MaxLines lines, the second page at most one
InitMerge ==
    /\ file \in {<<Page(first), Page(second)>> :
                    first \in UNION {[1..n -> LineKinds] : n \in 0..MaxLines},
                    second \in {<<>>} \cup {<<line>> : line \in NextPageKinds}}
    /\ assets = <<>>
    /\ blocks = <<>>
    /\ chunks = <<>>
    /\ InitDocument

SpecMerge == InitMerge /\ [][NextExtract]_vars

(***************************************************************************)
(* SpecChunk: build_contextual_chunks on a block set extraction can leave  *)
(***************************************************************************)
MaxBlocks == 4
BlockPages == {1, 2}

BlockKinds ==
    { [block_type |-> "TITLE", text |-> <<"T">>],
      [block_type |-> "PARAGRAPH", text |-> <<"A", "a", ".">>],
      [block_type |-> "PARAGRAPH", text |-> <<"B", "b", "b", "b", ".">>],
      [block_type |-> "LIST_ITEM", text |-> <<"-", " ", "c">>] }

BlockRows(choice) ==
    [i \in 1..Len(choice) |->
        [page_number |-> choice[i][2],
         block_index |-> i - 1,
         block_type |-> choice[i][1].block_type,
         text |-> choice[i][1].text,
         font_size |-> 10,
         is_bold |-> choice[i][1].block_type = "TITLE"]]

\* what the merger leaves: pages in order, and no two neighbours that it
\* would have merged
ExtractionCanLeave(rows) ==
    \A i \in 1..(Len(rows) - 1) :
        /\ rows[i].page_number <= rows[i + 1].page_number
        /\ rows[i].page_number = rows[i + 1].page_number
               => ~_should_merge(rows[i], rows[i + 1])

BlockInputs ==
    {rows \in {BlockRows(choice) :
                  choice \in UNION {[1..n -> BlockKinds \X BlockPages] :
                                       n \in 0..MaxBlocks}} :
        ExtractionCanLeave(rows)}

MaxCharsChoices == {4, 8, 12, DEFAULT_MAX_CHARS}

InitChunk ==
    /\ blocks \in BlockInputs
    /\ assets \in AssetChoices
    /\ file = NoFile
    /\ chunks = <<>>
    /\ page_count = 2
    /\ status = "text_structured"
    /\ error_message = "None"
    /\ processed_at = 1
    /\ now = 1
    /\ call = NoCall
    /\ ret = NoRet
    /\ built = <<>>
    /\ pc = [w \in Workers |-> "idle"]

NextChunk == \E max_chars \in MaxCharsChoices : BuildChunks(max_chars)

SpecChunk == InitChunk /\ [][NextChunk]_vars

(***************************************************************************)
(* SpecSplit: the degenerate inputs of the chunker, a document without     *)
(* blocks and _split_units_with_overlap on every short list of units       *)
(***************************************************************************)
MaxUnits == 3

\* _split_units_with_overlap(title_text, units, max_chars) called on its own
SplitUnits(title_text, units, max_chars) ==
    /\ call.op = "none"
    /\ built' = << [page |-> 1,
                    title_text |-> title_text,
                    units |-> units,
                    trace |-> SplitTrace(title_text, units, max_chars),
                    texts |-> _split_units_with_overlap(title_text, units, max_chars)] >>
    /\ call' = Event("split", FALSE, max_chars, "none")
    /\ UNCHANGED <<file, page_count, blocks, chunks, assets, status, error_message,
                   processed_at, now, ret, pc>>

TitleInputs == {<<>>, <<"T">>}

UnitKinds ==
    { [text |-> <<"A", "a", ".">>, paragraph_text |-> <<"A", "a", ".">>],
      [text |-> <<"-", " ", "c", "\n", "B", "b", "b", "b", ".">>,
       paragraph_text |-> <<"B", "b", "b", "b", ".">>],
      [text |-> <<"-", " ", "c">>, paragraph_text |-> None] }

UnitInputs == UNION {[1..n -> UnitKinds] : n \in 0..MaxUnits}

InitSplit ==
    /\ blocks = <<>>
    /\ assets \in AssetChoices
    /\ file = NoFile
    /\ chunks = <<>>
    /\ InitDocument

NextSplit ==
    \/ \E max_chars \in MaxCharsChoices : BuildChunks(max_chars)
    \/ \E title_text \in TitleInputs, units \in UnitInputs,
          max_chars \in MaxCharsChoices :
           SplitUnits(title_text, units, max_chars)

SpecSplit == InitSplit /\ [][NextSplit]_vars

(***************************************************************************)
(* SpecClassify: _classify_text on lines whose lengths lie around the      *)
(* limits of the classifier                                                *)
(***************************************************************************)
Repeat(c, n) == [i \in 1..n |-> c]

\* how a line starts: with nothing, a bullet, a numbering, a parenthesised
\* letter, or a digit that numbers nothing
LinePrefixes ==
    {<<>>, <<"-", " ">>, <<"1", ")", " ">>, <<"(", "a", ")", " ">>, <<"1">>}

\* numbers of uppercase and of lowercase letters that put the length of the
\* line and its uppercase ratio on either side of the limits
LetterCounts ==
    {0, 1, TitleMaxLen, TitleMaxLen + 1, BoldTitleMaxLen}
        \cup {TitleMaxLen \div 2, TitleMaxLen \div 2 + 1}
        \cup {BoldTitleMaxLen \div 2 - 1, BoldTitleMaxLen \div 2}

LineTexts ==
    {t \in {prefix \o (IF lower_first
                       THEN Repeat("a", n_lower) \o Repeat("A", n_upper)
                       ELSE Repeat("A", n_upper) \o Repeat("a", n_lower)) :
                prefix \in LinePrefixes, n_upper \in LetterCounts,
                n_lower \in LetterCounts, lower_first \in BOOLEAN} :
        t # <<>>}

\* font sizes below, at and above 1.2 times a median of 10, and the size 0
\* of a span without a size
FontSizes == {0, 10, 12, 13}
Median2Choices == {0, 20}

\* the median is the median of the sizes above 0 of the page the line is on:
\* it is 0 only when no line of the page has a size
ClassifierInputs ==
    {x \in [text : LineTexts, font_size : FontSizes, is_bold : BOOLEAN,
            median2 : Median2Choices, block_type : {"None"}] :
        x.median2 = 0 => x.font_size = 0}

InitClassify ==
    /\ built \in {<<x>> : x \in ClassifierInputs}
    /\ file = NoFile
    /\ assets = <<>>
    /\ blocks = <<>>
    /\ chunks = <<>>
    /\ page_count = NoInt
    /\ status = "pending"
    /\ error_message = "None"
    /\ processed_at = NoInt
    /\ now = 0
    /\ call = NoCall
    /\ ret = NoRet
    /\ pc = [w \in Workers |-> "idle"]

Classify ==
    /\ call.op = "none"
    /\ built' = <<[built[1] EXCEPT !.block_type =
                      _classify_text(built[1].text, built[1].font_size,
                                     built[1].is_bold, built[1].median2)]>>
    /\ call' = Event("classify", FALSE, 0, "none")
    /\ UNCHANGED <<file, page_count, blocks, chunks, assets, status, error_message,
                   processed_at, now, ret, pc>>

SpecClassify == InitClassify /\ [][Classify]_vars

(***************************************************************************)
(* SpecRace: two calls of embed_and_store_chunks(overwrite=False) on one   *)
(* document that the caller does not serialize.  Each call has a session   *)
(* of its own and sees what is committed; the collaborator returns one     *)
(* vector for each text.                                                   *)
(***************************************************************************)
\* the query for an existing chunk and the early return (lines 225-232)
RaceCheck(w) ==
    /\ pc[w] = "idle"
    /\ pc' = [pc EXCEPT ![w] = IF EmbedSkips(FALSE) THEN "skipped" ELSE "checked"]
    /\ UNCHANGED <<file, page_count, blocks, chunks, assets, status, error_message,
                   processed_at, now, call, ret, built>>

\* a call that looks for chunks again before it stores its own
RaceStoreIfNone(w) ==
    LET sections == BuiltSections(blocks, assets, DEFAULT_MAX_CHARS)
        chunk_dicts == Flatten(sections)
        stored == IF chunks = <<>> THEN chunk_dicts ELSE <<>>
    IN  /\ pc[w] = "checked"
        /\ pc' = [pc EXCEPT ![w] = "done"]
        /\ chunks' = chunks \o stored
        /\ status' = "embedded"
        /\ error_message' = "None"
        /\ processed_at' = now + 1
        /\ now' = now + 1
        /\ built' = sections
        /\ call' = Commit(Event("embed", FALSE, DEFAULT_MAX_CHARS, "none"))
        /\ ret' = [ZeroRet("ok") EXCEPT !.chunks_created = Len(stored)]
        /\ UNCHANGED <<file, page_count, blocks, assets>>

\* the rest of the call, up to its commit (lines 246-293): the chunks are
\* computed, embedded, added and committed with the status
RaceStore(w) ==
    LET sections == BuiltSections(blocks, assets, DEFAULT_MAX_CHARS)
        chunk_dicts == Flatten(sections)
    IN  /\ pc[w] = "checked"
        /\ pc' = [pc EXCEPT ![w] = "done"]
        /\ chunks' = chunks \o chunk_dicts
        /\ status' = "embedded"
        /\ error_message' = "None"
        /\ processed_at' = now + 1
        /\ now' = now + 1
        /\ built' = sections
        /\ call' = Commit(Event("embed", FALSE, DEFAULT_MAX_CHARS, "none"))
        /\ ret' = [ZeroRet("ok") EXCEPT !.chunks_created = Len(chunk_dicts)]
        /\ UNCHANGED <<file, page_count, blocks, assets>>

InitRace ==
    /\ blocks \in BlockInputs
    /\ assets = <<>>
    /\ file = NoFile
    /\ chunks = <<>>
    /\ page_count = 2
    /\ status = "text_structured"
    /\ error_message = "None"
    /\ processed_at = 1
    /\ now = 1
    /\ call = NoCall
    /\ ret = NoRet
    /\ built = <<>>
    /\ pc = [w \in Workers |-> "idle"]

NextRace == \E w \in Workers : RaceCheck(w) \/ RaceStore(w)

SpecRace == InitRace /\ [][NextRace]_vars

(***************************************************************************)
(* Properties of build_contextual_chunks (SpecChunk)                       *)
(***************************************************************************)
Built == call.op = "build"

\* the length of title and unit composed: the title, a newline, the unit
WithTitleLen(title_text, unit) ==
    IF title_text = <<>> THEN Len(unit.text) ELSE Len(title_text) + 1 + Len(unit.text)

\* chunk i of a built section consists of exactly one unit, which with the
\* section title already exceeds max_chars
OneOversizedUnit(section, i, max_chars) ==
    /\ Len(section.trace[i].units) = 1
    /\ WithTitleLen(section.title_text, section.trace[i].units[1]) > max_chars

\* C1: no chunk returned by build_contextual_chunks is longer than max_chars,
\* unless it consists of exactly one oversized unit (plus the section title);
\* chunks that start with an overlap seed included.
C1_ChunkWithinMaxChars ==
    Built =>
        \A k \in 1..Len(built) :
            \A i \in 1..Len(built[k].texts) :
                \/ Len(built[k].texts[i]) <= call.max_chars
                \/ OneOversizedUnit(built[k], i, call.max_chars)

\* the text a chunk of title, seed and unit begins with
SeededPrefix(title_text, seed_text, unit) ==
    (IF title_text = <<>> THEN <<>> ELSE title_text \o NL)
    \o seed_text \o NL \o unit.text

\* C5: whenever the splitter closes a chunk on overflow, the next chunk of the
\* section holds, after the title, the paragraph_text of the closed chunk's
\* last unit and then the unit that did not fit.
C5_OverflowSeedsNextChunk ==
    Built =>
        \A k \in 1..Len(built) :
            \A i \in 1..Len(built[k].trace) :
                built[k].trace[i].why = "overflow" =>
                    /\ i < Len(built[k].trace)
                    /\ LET closed == built[k].trace[i].units
                           last == closed[Len(closed)]
                           opened == built[k].trace[i + 1].units
                           unit == built[k].units[built[k].trace[i].next]
                       IN  /\ last.paragraph_text # None
                           /\ Len(opened) >= 2
                           /\ opened[1].text = last.paragraph_text
                           /\ opened[2] = unit
                           /\ startswith(built[k].texts[i + 1],
                                  SeededPrefix(built[k].title_text,
                                               last.paragraph_text, unit))

\* an overflow closed a chunk whose last unit is a list followed by a
\* paragraph: its paragraph_text is not its whole text
WitnessC5 ==
    /\ Built
    /\ \E k \in 1..Len(built) :
           \E i \in 1..Len(built[k].trace) :
               LET closed == built[k].trace[i].units
               IN  /\ built[k].trace[i].why = "overflow"
                   /\ closed[Len(closed)].text # closed[Len(closed)].paragraph_text
                   /\ built[k].title_text # <<>>

TitleBlocks == SelectSeq(OrderedBlocks(blocks), LAMBDA b : b.block_type = "TITLE")
TitledSections == SelectSeq(built, LAMBDA section : section.title_text # <<>>)

\* C6: every chunk of a section with a non-empty title starts with the text
\* of the TITLE block that opened the section: the first chunk, the chunks
\* opened after an overflow, a title-only chunk, a chunk with captions.
C6_ChunkStartsWithTitle ==
    Built =>
        /\ Len(TitledSections) = Len(TitleBlocks)
        /\ \A j \in 1..Len(TitledSections) :
               /\ TitledSections[j].texts # <<>>
               /\ \A i \in 1..Len(TitledSections[j].texts) :
                      startswith(TitledSections[j].texts[i], TitleBlocks[j].text)

\* a titled section split by an overflow whose last chunk carries a caption,
\* and a section that is its title alone
WitnessC6 ==
    /\ Built
    /\ \E j \in 1..Len(TitledSections) :
           /\ Len(TitledSections[j].texts) >= 2
           /\ TitledSections[j].trace[1].why = "overflow"
           /\ _build_asset_map(assets, TitledSections[j].page) # <<>>
    /\ \E j \in 1..Len(TitledSections) : TitledSections[j].units = <<>>

(***************************************************************************)
(* Properties of one extraction (SpecExtract)                              *)
(***************************************************************************)
Extracted == call.op = "extract" /\ ret.outcome = "ok"

\* the normalized keys of the header/footer-band lines of the document
BandKeys(all_pages) ==
    UNION {{all_pages[p][i].boilerplate_key :
               i \in {j \in 1..Len(all_pages[p]) : all_pages[p][j].is_header_footer}} :
           p \in 1..Len(all_pages)}

\* the distinct pages on which a band line has the normalized key
BandKeyPages(all_pages, key) ==
    {p \in 1..Len(all_pages) :
        \E i \in 1..Len(all_pages[p]) :
            /\ all_pages[p][i].is_header_footer
            /\ all_pages[p][i].boilerplate_key = key}

\* the keys, empty or not, that lie in the band on BoilerplateMinPages
\* distinct pages or more
RecurringKeys(all_pages) ==
    {key \in BandKeys(all_pages) :
        Cardinality(BandKeyPages(all_pages, key)) >= BoilerplateMinPages}

\* the line of page p with this text has become a block
LineInBlocks(p, text) ==
    \E i \in 1..Len(blocks) : blocks[i].page_number = p /\ blocks[i].text = text

\* C4 (as stated): every header/footer-band line, whatever its text, whose
\* normalized key occurs in the band on 6 or more distinct pages is excluded
\* from every page; on 5 or fewer distinct pages it is retained.
C4_EveryRecurringBandLineExcluded ==
    Extracted =>
        \A all_pages \in {AllPages(file)} :
        \A recurring \in {RecurringKeys(all_pages)} :
            \A p \in 1..Len(all_pages) :
                \A i \in 1..Len(all_pages[p]) :
                    all_pages[p][i].is_header_footer =>
                        IF all_pages[p][i].boilerplate_key \in recurring
                        THEN ~LineInBlocks(p, all_pages[p][i].text)
                        ELSE LineInBlocks(p, all_pages[p][i].text)

\* C4 (amended): a header/footer-band line whose normalized key is not empty
\* is excluded from every page when the key occurs in the band on 6 or more
\* distinct pages and retained when it occurs on 5 or fewer; a band line whose
\* key is empty (digits and punctuation only) is retained on every page.
C4_RecurringKeyedBandLineExcluded ==
    Extracted =>
        \A all_pages \in {AllPages(file)} :
        \A recurring \in {RecurringKeys(all_pages) \ {<<>>}} :
            \A p \in 1..Len(all_pages) :
                \A i \in 1..Len(all_pages[p]) :
                    all_pages[p][i].is_header_footer =>
                        IF all_pages[p][i].boilerplate_key \in recurring
                        THEN ~LineInBlocks(p, all_pages[p][i].text)
                        ELSE LineInBlocks(p, all_pages[p][i].text)

\* a key on 6 pages or more, carried on one page by two different texts, one
\* of them a TITLE had it been kept; no line with the key is left in the
\* blocks, and other lines are
WitnessC4 ==
    /\ Extracted
    /\ blocks # <<>>
    /\ \E all_pages \in {AllPages(file)} :
           \E p \in 1..Len(all_pages) :
               \E i, j \in 1..Len(all_pages[p]) :
                   /\ all_pages[p][i].is_header_footer
                   /\ all_pages[p][j].is_header_footer
                   /\ all_pages[p][i].text # all_pages[p][j].text
                   /\ all_pages[p][i].boilerplate_key = all_pages[p][j].boilerplate_key
                   /\ all_pages[p][i].boilerplate_key \in RecurringKeys(all_pages)
                   /\ _classify_text(all_pages[p][i].text, all_pages[p][i].font_size,
                                     all_pages[p][i].is_bold, 0) = "TITLE"
                   /\ ~LineInBlocks(p, all_pages[p][i].text)
                   /\ ~LineInBlocks(p, all_pages[p][j].text)

\* the texts of the lines of each page that pass the boilerplate filter
KeptTexts(all_pages, recurring) ==
    [p \in 1..Len(all_pages) |->
        LET kept == SelectSeq(all_pages[p], LAMBDA item :
                        ~(item.is_header_footer
                          /\ item.boilerplate_key \in recurring))
        IN  [i \in 1..Len(kept) |-> kept[i].text]]

\* C10: after a successful extraction the block_index values are exactly
\* 0..n-1 in the order of the rows, which is page order and, within a page,
\* line order; pages that are empty or wholly filtered leave no gap.
C10_BlockIndexDense ==
    Extracted =>
        \A all_pages \in {AllPages(file)} :
        \A recurring \in {RecurringKeys(all_pages) \ {<<>>}} :
        \A kept \in {KeptTexts(all_pages, recurring)} :
            /\ \A i \in 1..Len(blocks) : blocks[i].block_index = i - 1
            /\ ret.blocks_created = Len(blocks)
            /\ \A i \in 1..(Len(blocks) - 1) :
                   \/ blocks[i].page_number < blocks[i + 1].page_number
                   \/ /\ blocks[i].page_number = blocks[i + 1].page_number
                      /\ \E a, b \in 1..Len(kept[blocks[i].page_number]) :
                             /\ a < b
                             /\ startswith(blocks[i].text,
                                           kept[blocks[i].page_number][a])
                             /\ startswith(blocks[i + 1].text,
                                           kept[blocks[i].page_number][b])

\* blocks before and after a page whose lines were all filtered out
WitnessC10 ==
    /\ Extracted
    /\ \E all_pages \in {AllPages(file)} :
       \E q \in 2..(Len(file) - 1) :
           /\ all_pages[q] # <<>>
           /\ KeptTexts(all_pages, RecurringKeys(all_pages) \ {<<>>})[q] = <<>>
           /\ \E i \in 1..Len(blocks) : blocks[i].page_number < q
           /\ \E i \in 1..Len(blocks) : blocks[i].page_number > q

(***************************************************************************)
(* Properties of the calls on one document (Spec)                          *)
(***************************************************************************)
ExtractFailedInside ==
    call.op = "extract" /\ call.fault \in {"open", "load_page"}

\* C2: when extract_structured_text fails after extraction has started (the
\* file does not open, a page does not load), the document's blocks after the
\* call are the blocks before it, also when overwrite=true had issued the
\* delete; only status and error_message record the failure.
C2_FailedExtractKeepsBlocks ==
    ExtractFailedInside =>
        /\ blocks = call.before.blocks
        /\ chunks = call.before.chunks
        /\ status = "failed"
        /\ error_message # "None"

EmbedFailedInside == call.op = "embed" /\ call.fault \in {"error", "baddim"}

\* C3: when embed_and_store_chunks fails part-way (the collaborator raises or
\* returns a vector of the wrong length, in any batch), the document is marked
\* failed with a message and no chunk row written by the call is persisted.
C3_FailedEmbedPersistsNoChunk ==
    EmbedFailedInside =>
        /\ status = "failed"
        /\ error_message # "None"
        /\ (chunks = call.before.chunks \/ chunks = <<>>)

\* a call with overwrite=false on a document that has a Block (extract) or a
\* Chunk (embed) already
CalledOnExistingRows ==
    /\ ~call.overwrite
    /\ \/ call.op = "extract" /\ call.before.blocks # <<>>
       \/ call.op = "embed" /\ call.before.chunks # <<>>

\* C7: called with overwrite=false on a document that already has a Block
\* (extract_structured_text) or a Chunk (embed_and_store_chunks), the call
\* returns a zero-count result and leaves blocks, chunks, status,
\* error_message and processed_at as they were, whatever the state of the file.
C7_SkipIsNoOp ==
    CalledOnExistingRows =>
        /\ ret.pages_processed = 0 /\ ret.blocks_created = 0
        /\ ret.titles_count = 0 /\ ret.list_items_count = 0
        /\ ret.chunks_created = 0
        /\ Before = call.before

OverwriteSucceeded == call.overwrite /\ ret.outcome = "ok"

ExtractedTwice ==
    /\ OverwriteSucceeded
    /\ call.op = "extract"
    /\ call.prev = [op |-> "extract", overwrite |-> TRUE, outcome |-> "ok"]

\* C9: running extract_structured_text twice in a row with overwrite=true on
\* an unchanged file leaves the same blocks after the second run as after the
\* first: as many, with the same block_index, page_number, block_type and
\* text, in the same order.
C9_ReextractionIsIdentical ==
    ExtractedTwice =>
        /\ Len(blocks) = Len(call.before.blocks)
        /\ \A i \in 1..Len(blocks) :
               /\ blocks[i].block_index = call.before.blocks[i].block_index
               /\ blocks[i].page_number = call.before.blocks[i].page_number
               /\ blocks[i].block_type = call.before.blocks[i].block_type
               /\ blocks[i].text = call.before.blocks[i].text

\* the second run has rewritten blocks of the three types
WitnessC9 ==
    /\ ExtractedTwice
    /\ {blocks[i].block_type : i \in 1..Len(blocks)}
           = {"TITLE", "PARAGRAPH", "LIST_ITEM"}

(***************************************************************************)
(* Further properties of one extraction (SpecExtract)                      *)
(***************************************************************************)
\* a bare number of one to three digits
BareNumber(text) ==
    Len(text) \in 1..3 /\ \A i \in 1..Len(text) : text[i] \in DigitChars

\* the whitespace-normalized text of a line of the PDF
RawLineText(line) ==
    _normalize_text(join(SP, [i \in 1..Len(line.spans) |-> line.spans[i].text]))

\* the PDF without its lines that are bare numbers
WithoutFolios(pdf) ==
    [p \in 1..Len(pdf) |->
        [pdf[p] EXCEPT !.lines =
            SelectSeq(pdf[p].lines, LAMBDA line : ~BareNumber(RawLineText(line)))]]

\* C11: a line whose whitespace-normalized text is a bare number of 1 to 3
\* digits is dropped before boilerplate detection, classification and merging:
\* the blocks are those of the PDF without such lines, and no block's text is
\* a bare number.
C11_FolioLinesLeaveNoTrace ==
    Extracted =>
        /\ blocks = blocks_to_insert(WithoutFolios(file))
        /\ \A i \in 1..Len(blocks) : ~BareNumber(blocks[i].text)

\* a PDF with a bare number in the footer band of a page and one, between
\* spaces, in the body of another page, among lines that become blocks
WitnessC11 ==
    /\ Extracted
    /\ \E p, q \in 1..Len(file) :
           /\ \E i \in 1..Len(file[p].lines) :
                  /\ BareNumber(RawLineText(file[p].lines[i]))
                  /\ file[p].lines[i].bbox = FooterBox
           /\ \E i \in 2..(Len(file[q].lines) - 1) :
                  /\ BareNumber(RawLineText(file[q].lines[i]))
                  /\ file[q].lines[i].bbox = BodyBox
                  /\ file[q].lines[i].spans[1].text # RawLineText(file[q].lines[i])
                  /\ LineInBlocks(q, RawLineText(file[q].lines[i - 1]))
                  /\ LineInBlocks(q, RawLineText(file[q].lines[i + 1]))

(***************************************************************************)
(* Properties of the header/footer band (SpecBand)                         *)
(***************************************************************************)
\* the line of this item has become a block of its own on page p
ItemInBlocks(p, item) ==
    \E i \in 1..Len(blocks) :
        /\ blocks[i].page_number = p
        /\ blocks[i].text = item.text
        /\ blocks[i].font_size = item.font_size
        /\ blocks[i].is_bold = item.is_bold

\* the pages on which a line, in the band or not, has this normalized text
AnyKeyPages(all_pages, key) ==
    {p \in 1..Len(all_pages) :
        \E i \in 1..Len(all_pages[p]) :
            _normalize_boilerplate(all_pages[p][i].text) = key}

\* C16: a line outside the header/footer band is never removed by the
\* boilerplate filter, even if its text repeats on 6 pages or more or equals
\* the text of a removed band line, and it never counts toward a key's page
\* count: a band line whose key lies in the band on fewer than 6 pages is
\* retained, however many pages carry the text outside the band.
C16_BodyLinesNeverFiltered ==
    Extracted =>
        \A all_pages \in {AllPages(file)} :
            \A p \in 1..Len(all_pages) :
                \A i \in 1..Len(all_pages[p]) :
                    \/ /\ ~all_pages[p][i].is_header_footer
                       /\ ItemInBlocks(p, all_pages[p][i])
                    \/ /\ all_pages[p][i].is_header_footer
                       /\ Cardinality(BandKeyPages(all_pages,
                              all_pages[p][i].boilerplate_key)) < BoilerplateMinPages
                              => ItemInBlocks(p, all_pages[p][i])

\* a header removed from every page, and on one of its pages a body line with
\* the header's text, kept
WitnessC16 ==
    /\ Extracted
    /\ \E all_pages \in {AllPages(file)} :
       \E p \in 1..Len(all_pages) :
           \E i, j \in 1..Len(all_pages[p]) :
               /\ all_pages[p][i].is_header_footer
               /\ ~all_pages[p][j].is_header_footer
               /\ all_pages[p][i].text = all_pages[p][j].text
               /\ all_pages[p][i].boilerplate_key \in RecurringKeys(all_pages)
               /\ ~ItemInBlocks(p, all_pages[p][i])
               /\ ItemInBlocks(p, all_pages[p][j])
               /\ Cardinality(AnyKeyPages(all_pages, all_pages[p][i].boilerplate_key))
                      >= BoilerplateMinPages

(***************************************************************************)
(* Further properties of build_contextual_chunks (SpecChunk)               *)
(***************************************************************************)
\* the chunks of the output, in order: <<k, i>> is chunk i of section k
ChunkPositions ==
    UNION {{<<k, i>> : i \in 1..Len(built[k].texts)} : k \in 1..Len(built)}

ComesBefore(x, y) == x[1] < y[1] \/ (x[1] = y[1] /\ x[2] < y[2])

\* the concatenated caption text of a page, empty when the page has none
CaptionText(page) == strip(join(NL, _build_asset_map(assets, page)))

\* the chunk has had text appended to what the splitter produced for it
ReceivedCaption(x) == built[x[1]].texts[x[2]] # built[x[1]].trace[x[2]].text

\* C12: for each page with caption or table-content data, the caption text is
\* appended to exactly one chunk, the last chunk in output order whose page is
\* that page; no other chunk of the page receives it.
C12_CaptionOnLastChunkOfPage ==
    Built =>
        \A x \in ChunkPositions :
            IF /\ CaptionText(built[x[1]].page) # <<>>
               /\ \A y \in ChunkPositions :
                      built[y[1]].page = built[x[1]].page => ~ComesBefore(x, y)
            THEN built[x[1]].texts[x[2]]
                     = strip(built[x[1]].trace[x[2]].text \o NL
                             \o CaptionText(built[x[1]].page))
            ELSE ~ReceivedCaption(x)

\* the TITLE block at position i of the ordered blocks is followed at once by
\* another TITLE block or by the end of the document
TitleWithoutContent(i) ==
    /\ OrderedBlocks(blocks)[i].block_type = "TITLE"
    /\ (i = Len(blocks) \/ OrderedBlocks(blocks)[i + 1].block_type = "TITLE")

\* the section that the TITLE block at position i opens: titled sections and
\* TITLE blocks correspond in order
SectionOfTitle(i) ==
    TitledSections[Cardinality({j \in 1..i : OrderedBlocks(blocks)[j].block_type = "TITLE"})]

\* C15 (as stated): a section with a non-empty title and no content units (a
\* TITLE block followed at once by another TITLE block or by the end of the
\* document) yields exactly one chunk whose text is the title alone.
C15_TitleOnlyChunkIsTitle ==
    Built =>
        /\ Len(TitledSections) = Len(TitleBlocks)
        /\ \A i \in 1..Len(blocks) :
               TitleWithoutContent(i) =>
                   SectionOfTitle(i).texts = <<OrderedBlocks(blocks)[i].text>>

\* C15 (amended): such a section yields exactly one chunk; its text is the
\* title alone when the section's page has no caption text, and the title
\* followed on a new line by the page's caption text when it has.
C15_TitleOnlyChunkIsTitleAndCaption ==
    Built =>
        /\ Len(TitledSections) = Len(TitleBlocks)
        /\ \A i \in 1..Len(blocks) :
               TitleWithoutContent(i) =>
                   /\ SectionOfTitle(i).units = <<>>
                   /\ SectionOfTitle(i).texts =
                          << IF CaptionText(OrderedBlocks(blocks)[i].page_number) = <<>>
                             THEN OrderedBlocks(blocks)[i].text
                             ELSE OrderedBlocks(blocks)[i].text \o NL
                                  \o CaptionText(OrderedBlocks(blocks)[i].page_number) >>

\* a TITLE block followed at once by a TITLE block of another page and a
\* TITLE block that ends the document, one of their pages with a caption and
\* one without
WitnessC15 ==
    /\ Built
    /\ \E i, j \in 1..Len(blocks) :
           /\ i < j /\ j = Len(blocks)
           /\ TitleWithoutContent(i)
           /\ TitleWithoutContent(j)
           /\ CaptionText(OrderedBlocks(blocks)[i].page_number) # <<>>
           /\ CaptionText(OrderedBlocks(blocks)[j].page_number) = <<>>
           /\ Len(SectionOfTitle(i).texts) = 1

(***************************************************************************)
(* Further properties of the calls on one document (Spec)                  *)
(***************************************************************************)
ExtractWithoutFile == call.op = "extract" /\ file = NoFile

ExtractSucceeded == call.op = "extract" /\ ret.outcome = "ok"
EmbedSucceeded == call.op = "embed" /\ ret.outcome = "ok"

\* C17: on success all writes of one call become durable together in exactly
\* one commit: the state a successful extraction commits has the old blocks
\* deleted (when overwrite is set), the new blocks inserted and the status
\* updated, all at once, and likewise the chunk deletes, the chunk inserts
\* and the status of a successful embedding.
C17_SuccessCommitsOnce ==
    /\ ExtractSucceeded =>
           /\ call.commits = 1
           /\ blocks = AfterDelete(call.overwrite, call.before.blocks)
                           \o blocks_to_insert(file)
           /\ status = "text_structured"
           /\ error_message = "None"
           /\ processed_at = now
    /\ EmbedSucceeded =>
           \A kept \in {AfterDelete(call.overwrite, call.before.chunks)} :
               /\ call.commits = 1
               /\ Len(chunks) = Len(kept) + ret.chunks_created
               /\ SubSeq(chunks, 1, Len(kept)) = kept
               /\ call.fault = "none" =>
                      chunks = kept \o build_contextual_chunks(blocks, assets,
                                                               call.max_chars)
               /\ status = "embedded"
               /\ error_message = "None"
               /\ processed_at = now

\* a successful extraction that deleted blocks, inserted blocks and moved the
\* status away from "embedded"
WitnessC17 ==
    /\ ExtractSucceeded
    /\ call.overwrite
    /\ call.before.blocks # <<>>
    /\ blocks # <<>>
    /\ blocks # call.before.blocks
    /\ call.before.status = "embedded"
    /\ call.before.chunks # <<>>

\* a call that ran to a handled outcome: it returned a summary and did not
\* return early because rows exist
Handled == call.op \in {"extract", "embed"} /\ ret.outcome \in {"ok", "failed"}

\* C18: every call that runs to a handled outcome writes the status that
\* fits the outcome: "text_structured" after a successful extraction and
\* "embedded" after a successful embedding (also one of zero chunks), with
\* error_message cleared and processed_at set; "failed" with a non-empty
\* error message and processed_at set after a handled failure; and the
\* summary reports failure exactly when the status written is "failed".
C18_StatusFitsOutcome ==
    Handled =>
        /\ processed_at = now
        /\ ret.outcome = "ok" =>
               /\ status = IF call.op = "extract" THEN "text_structured" ELSE "embedded"
               /\ error_message = "None"
        /\ ret.outcome = "failed" =>
               /\ status = "failed"
               /\ error_message \notin {"None", ""}
        /\ ret.outcome = "failed" <=> status = "failed"

\* the rows of s are rows of t, each taken once and in the order of t
RECURSIVE IsSubsequence(_, _)
IsSubsequence(s, t) ==
    IF s = <<>> THEN TRUE
    ELSE IF t = <<>> THEN FALSE
    ELSE IF Head(s) = Head(t) THEN IsSubsequence(Tail(s), Tail(t))
    ELSE IsSubsequence(s, Tail(t))

EmbedWrote == call.op = "embed" /\ ret.outcome \in {"ok", "failed"}

\* C19: under serialized calls, after any sequence of extract and embed calls
\* with any overwrite flags, successes and failures, the document holds no
\* duplicate block set and no duplicate chunk set: its blocks have pairwise
\* distinct block_index values, and its chunks are rows of the one chunk set
\* the call that wrote them computed, each at most once.
C19_NoDuplicateSets ==
    /\ \A i, j \in 1..Len(blocks) :
           i # j => blocks[i].block_index # blocks[j].block_index
    /\ IF EmbedWrote
       THEN IsSubsequence(chunks,
                build_contextual_chunks(blocks, assets, call.max_chars))
       ELSE chunks = call.before.chunks

\* C25: on an extraction failure the error message stored on the document,
\* and returned in the summary, is the error text cut to a bounded length:
\* however long the error text is, the message stored is shorter than an
\* error text of LongErrorLen characters.
C25_ErrorMessageBounded ==
    (call.op = "extract" /\ ret.outcome = "failed" /\ call.fault # "none") =>
        StoredMessageLength(call.fault) < LongErrorLen

\* C30: whenever embed_and_store_chunks ends with the status "embedded",
\* exactly one Chunk row is persisted for every chunk that
\* build_contextual_chunks computed, with that chunk's page and text, and
\* chunks_created is the number of computed chunks, whatever number of
\* vectors the embedding collaborator returned for a batch.
C30_OneRowPerComputedChunk ==
    (EmbedSucceeded /\ status = "embedded") =>
        \A computed \in {build_contextual_chunks(blocks, assets, call.max_chars)} :
            /\ SubSeq(chunks, Len(chunks) - ret.chunks_created + 1, Len(chunks))
                   = computed
            /\ ret.chunks_created = Len(computed)

(***************************************************************************)
(* Properties of the degenerate inputs (SpecSplit)                         *)
(***************************************************************************)
SplitAlone == call.op = "split"

\* C14 (as stated): a section with no units, or a document with no blocks at
\* all, yields zero chunks.
C14_NoUnitsNoChunks ==
    /\ (Built /\ blocks = <<>>) => Flatten(built) = <<>>
    /\ (SplitAlone /\ built[1].units = <<>>) => built[1].texts = <<>>

\* C14 (amended): a document with no blocks at all yields zero chunks, and so
\* does a section with no units whose title is empty; a section with no units
\* and a non-empty title yields one chunk.
C14_NoUnitsNoTitleNoChunks ==
    /\ (Built /\ blocks = <<>>) => Flatten(built) = <<>>
    /\ (SplitAlone /\ built[1].units = <<>>) =>
           IF built[1].title_text = <<>>
           THEN built[1].texts = <<>>
           ELSE Len(built[1].texts) = 1

\* the splitter has run on no unit and an empty title
WitnessC14 ==
    /\ SplitAlone
    /\ built[1].units = <<>>
    /\ built[1].title_text = <<>>
    /\ built[1].texts = <<>>

(***************************************************************************)
(* Properties of the classifier (SpecClassify)                             *)
(***************************************************************************)
Classified == call.op = "classify"

\* font_size > 1.2 x median, in the integers of the model
LargerThanMedian(line) == 5 * line.font_size > 3 * line.median2

TitleCandidate(line) ==
    LargerThanMedian(line) \/ (line.is_bold /\ Len(line.text) < 120)

Demoted(line) ==
    \/ _starts_with_lower(line.text)
    \/ Len(line.text) > 80 /\ _uppercase_ratio_below_half(line.text)

\* C20: the classifier applies its rules in this order: a line with a bullet
\* or numbering prefix is LIST_ITEM whatever its font size and boldness;
\* otherwise it is a title candidate iff font_size > 1.2 x median or (bold and
\* shorter than 120); a candidate is TITLE unless it starts with a lowercase
\* letter or (is longer than 80 and has an uppercase ratio below 0.5); every
\* other line is PARAGRAPH.  In particular a bold line of 120 characters or
\* more in a normal font size is never TITLE.
C20_ClassifierRuleOrder ==
    Classified =>
        \A line \in {built[1]} :
            /\ ListPrefixMatch(line.text) => line.block_type = "LIST_ITEM"
            /\ ~ListPrefixMatch(line.text) =>
                   /\ line.block_type = "TITLE" <=>
                          (TitleCandidate(line) /\ ~Demoted(line))
                   /\ line.block_type # "TITLE" => line.block_type = "PARAGRAPH"
            /\ (line.is_bold /\ Len(line.text) >= 120 /\ ~LargerThanMedian(line))
                   => line.block_type # "TITLE"

\* a bold line of exactly 120 uppercase letters in the size of the median:
\* PARAGRAPH
WitnessC20 ==
    /\ Classified
    /\ built[1].is_bold
    /\ Len(built[1].text) = 120
    /\ \A i \in 1..Len(built[1].text) : isupper(built[1].text[i])
    /\ built[1].font_size = 10
    /\ built[1].median2 = 20
    /\ built[1].block_type = "PARAGRAPH"

(***************************************************************************)
(* Properties of the merger (SpecMerge)                                    *)
(***************************************************************************)
\* the classified line stream of page p: the lines the filter keeps, each
\* with the type the classifier gives it
ClassifiedLines(all_pages, p) ==
    LET kept == filtered_items(all_pages[p], boilerplate_keys(all_pages))
    IN  [i \in 1..Len(kept) |->
            [text |-> kept[i].text,
             block_type |-> _classify_text(kept[i].text, kept[i].font_size,
                                           kept[i].is_bold, Median2(kept))]]

\* the maximal runs <<i, j>> of consecutive lines of this type in a stream
RunsOf(stream, type) ==
    {r \in (1..Len(stream)) \X (1..Len(stream)) :
        /\ r[1] <= r[2]
        /\ \A k \in r[1]..r[2] : stream[k].block_type = type
        /\ r[1] > 1 => stream[r[1] - 1].block_type # type
        /\ r[2] < Len(stream) => stream[r[2] + 1].block_type # type}

BlocksOn(p, type) ==
    {i \in 1..Len(blocks) : blocks[i].page_number = p /\ blocks[i].block_type = type}

\* C21: a LIST_ITEM line that follows an open LIST_ITEM block is always
\* merged into it, the texts joined by newlines: every run of k consecutive
\* bulleted lines of a page's line stream yields exactly one LIST_ITEM block,
\* whose text is the k line texts joined by newlines, in order.
C21_ListRunIsOneBlock ==
    Extracted =>
        \A all_pages \in {AllPages(file)} :
            \A p \in 1..Len(all_pages) :
                \A stream \in {ClassifiedLines(all_pages, p)} :
                    /\ \A r \in RunsOf(stream, "LIST_ITEM") :
                           \E i \in BlocksOn(p, "LIST_ITEM") :
                               blocks[i].text =
                                   join(NL, [k \in 1..(r[2] - r[1] + 1) |->
                                                stream[r[1] + k - 1].text])
                    /\ Cardinality(BlocksOn(p, "LIST_ITEM"))
                           = Cardinality(RunsOf(stream, "LIST_ITEM"))

\* three bulleted lines in a row, of two different texts, in one block
WitnessC21 ==
    /\ Extracted
    /\ \E all_pages \in {AllPages(file)} :
           \E r \in RunsOf(ClassifiedLines(all_pages, 1), "LIST_ITEM") :
               /\ r[2] - r[1] = 2
               /\ all_pages[1][r[1]].text # all_pages[1][r[1] + 1].text
    /\ Cardinality(BlocksOn(1, "LIST_ITEM")) = 1

\* What the paragraph rule makes of a line stream from line i on: acc is the
\* accumulated text of the open PARAGRAPH block (<<>> when the open block is
\* of another type or there is none), out the texts of the PARAGRAPH blocks
\* closed so far.
RECURSIVE ParagraphsFrom(_, _, _, _)
ParagraphsFrom(stream, i, acc, out) ==
    LET closed == IF acc = <<>> THEN out ELSE Append(out, acc)
    IN  IF i > Len(stream) THEN closed
        ELSE IF stream[i].block_type # "PARAGRAPH"
        THEN ParagraphsFrom(stream, i + 1, <<>>, closed)
        ELSE IF acc = <<>>
        THEN ParagraphsFrom(stream, i + 1, stream[i].text, out)
        ELSE IF acc[Len(acc)] = "." /\ isupper(stream[i].text[1])
        THEN ParagraphsFrom(stream, i + 1, stream[i].text, closed)
        ELSE ParagraphsFrom(stream, i + 1, acc \o SP \o stream[i].text, out)

\* the texts of the blocks of page p that were opened by a PARAGRAPH line (a
\* block opened by a TITLE line is bold, also when it is committed as
\* PARAGRAPH), in block order
ParagraphTexts(p) ==
    LET rows == SelectSeq(blocks, LAMBDA b :
                    b.page_number = p /\ b.block_type = "PARAGRAPH" /\ ~b.is_bold)
    IN  [i \in 1..Len(rows) |-> rows[i].text]

\* C22: an incoming PARAGRAPH line is merged, space-joined, into an open
\* PARAGRAPH block unless the accumulated text of the open block ends with a
\* period and the incoming line starts with an uppercase letter; in exactly
\* that case, and whenever the types differ, the open block is closed and the
\* line opens a new block.  The decision reads the accumulated text, not the
\* first line of the block.
C22_ParagraphMergeRule ==
    Extracted =>
        \A all_pages \in {AllPages(file)} :
            \A p \in 1..Len(all_pages) :
                ParagraphTexts(p) =
                    ParagraphsFrom(ClassifiedLines(all_pages, p), 1, <<>>, <<>>)

\* "Ab", "ab." and "Aa." in a row: the first two merge, and the third opens a
\* new block because the merged text ends with a period
WitnessC22 ==
    /\ Extracted
    /\ \E all_pages \in {AllPages(file)} :
           /\ Len(all_pages[1]) = 3
           /\ \A i \in 1..3 :
                  ClassifiedLines(all_pages, 1)[i].block_type = "PARAGRAPH"
           /\ all_pages[1][1].text[Len(all_pages[1][1].text)] # "."
           /\ isupper(all_pages[1][3].text[1])
    /\ Len(ParagraphTexts(1)) = 2
    /\ ParagraphTexts(1)[2] = <<"A", "a", ".">>

\* uppercase ratio of at least 0.5: the text has letters, and at least half
\* of them are uppercase
UppercaseRatioAtLeastHalf(text) ==
    /\ \E i \in 1..Len(text) : isalpha(text[i])
    /\ 2 * Cardinality({i \in 1..Len(text) : isupper(text[i])})
           >= Cardinality({i \in 1..Len(text) : isalpha(text[i])})

\* the type a block opened by TITLE lines is committed with
CommittedTitle(text) ==
    [text |-> text,
     block_type |-> IF Len(text) <= 80 \/ UppercaseRatioAtLeastHalf(text)
                    THEN "TITLE" ELSE "PARAGRAPH"]

\* What the title rule makes of a line stream from line i on: acc is the
\* accumulated text of the open TITLE block (<<>> when there is none), out
\* the blocks opened by TITLE lines and closed so far.
RECURSIVE TitlesFrom(_, _, _, _)
TitlesFrom(stream, i, acc, out) ==
    LET closed == IF acc = <<>> THEN out ELSE Append(out, CommittedTitle(acc))
    IN  IF i > Len(stream) THEN closed
        ELSE IF stream[i].block_type # "TITLE"
        THEN TitlesFrom(stream, i + 1, <<>>, closed)
        ELSE IF acc = <<>>
        THEN TitlesFrom(stream, i + 1, stream[i].text, out)
        ELSE IF Len(acc) <= 80 /\ Len(stream[i].text) <= 80
        THEN TitlesFrom(stream, i + 1, acc \o SP \o stream[i].text, out)
        ELSE TitlesFrom(stream, i + 1, stream[i].text, closed)

\* the blocks of page p opened by TITLE lines (the bold blocks), in block
\* order, with the type they were committed with
TitleOpened(p) ==
    LET rows == SelectSeq(blocks, LAMBDA b : b.page_number = p /\ b.is_bold)
    IN  [i \in 1..Len(rows) |->
            [text |-> rows[i].text, block_type |-> rows[i].block_type]]

\* C23: every committed block of type TITLE has a text of at most 80
\* characters or an uppercase ratio of at least 0.5: two TITLE lines merge
\* only when the open text and the incoming text are both at most 80
\* characters long, and an open TITLE block whose merged text is longer than
\* 80 characters with an uppercase ratio below 0.5 is committed as PARAGRAPH
\* and is not counted as a title.
C23_CommittedTitleShortOrUppercase ==
    Extracted =>
        /\ \A i \in 1..Len(blocks) :
               blocks[i].block_type = "TITLE" =>
                   \/ Len(blocks[i].text) <= 80
                   \/ UppercaseRatioAtLeastHalf(blocks[i].text)
        /\ ret.titles_count =
               Cardinality({i \in 1..Len(blocks) : blocks[i].block_type = "TITLE"})
        /\ \A all_pages \in {AllPages(file)} :
               \A p \in 1..Len(all_pages) :
                   TitleOpened(p) = TitlesFrom(ClassifiedLines(all_pages, p), 1, <<>>, <<>>)

\* two mostly lowercase TITLE lines merged into a text longer than 80
\* characters, committed as PARAGRAPH, beside a block that is counted
WitnessC23 ==
    /\ Extracted
    /\ \E i \in 1..Len(blocks) :
           /\ blocks[i].is_bold
           /\ blocks[i].block_type = "PARAGRAPH"
           /\ Len(blocks[i].text) > 80
           /\ ~UppercaseRatioAtLeastHalf(blocks[i].text)
    /\ ret.titles_count = 1

\* the characters of a sequence of texts, in order, without the spaces and
\* newlines that separate lines and words
Characters(texts) ==
    SelectSeq(join(<<>>, texts), LAMBDA c : c \notin {" ", "\n"})

BlockTextsOn(p) ==
    LET rows == SelectSeq(blocks, LAMBDA b : b.page_number = p)
    IN  [i \in 1..Len(rows) |-> rows[i].text]

\* C28: no block mixes lines of different pages, whatever its type: the open
\* block is closed at the end of every page, also when the next page starts
\* with a line of the same type that would otherwise merge.  The blocks of a
\* page hold the lines of that page and nothing else, and page_number never
\* decreases in block_index order.
C28_BlocksStayOnTheirPage ==
    Extracted =>
        /\ \A all_pages \in {AllPages(file)} :
               \A p \in 1..Len(all_pages) :
                   \A stream \in {ClassifiedLines(all_pages, p)} :
                       Characters(BlockTextsOn(p))
                           = Characters([i \in 1..Len(stream) |-> stream[i].text])
        /\ \A i, j \in 1..Len(blocks) :
               blocks[i].block_index < blocks[j].block_index
                   => blocks[i].page_number <= blocks[j].page_number
        /\ \A i \in 1..Len(blocks) : blocks[i].page_number \in 1..Len(file)

\* the first page ends with a bulleted line (or a line without a period) and
\* the second starts with a line of the same type: two blocks, one on each
\* page
WitnessC28 ==
    /\ Extracted
    /\ \E all_pages \in {AllPages(file)} :
           \E first \in {ClassifiedLines(all_pages, 1)},
              second \in {ClassifiedLines(all_pages, 2)} :
               /\ first # <<>> /\ second # <<>>
               /\ first[Len(first)].block_type = second[1].block_type
               /\ second[1].block_type \in {"LIST_ITEM", "PARAGRAPH"}
    /\ blocks[Len(blocks)].page_number = 2
    /\ blocks[Len(blocks) - 1].page_number = 1
    /\ blocks[Len(blocks)].block_type = blocks[Len(blocks) - 1].block_type

(***************************************************************************)
(* Properties of the section assembler (SpecChunk)                         *)
(***************************************************************************)
\* Where the sections of an ordered block stream start: at each TITLE block,
\* and at 0, before the first block, when the stream starts with a block that
\* is no TITLE.
SectionStarts(ordered) ==
    LET positions == [i \in 1..Len(ordered) |-> i]
        titles == SelectSeq(positions, LAMBDA i : ordered[i].block_type = "TITLE")
    IN  IF ordered # <<>> /\ ordered[1].block_type # "TITLE"
        THEN <<0>> \o titles ELSE titles

\* the partition the claim describes: section k runs from its start to the
\* block before the next start
PartitionByTitles(ordered) ==
    LET starts == SectionStarts(ordered)
        last(k) == IF k < Len(starts) THEN starts[k + 1] - 1 ELSE Len(ordered)
    IN  [k \in 1..Len(starts) |->
            [page |-> IF starts[k] = 0 THEN ordered[1].page_number
                      ELSE ordered[starts[k]].page_number,
             title |-> IF starts[k] = 0 THEN <<>> ELSE ordered[starts[k]].text,
             blocks |-> SubSeq(ordered, starts[k] + 1, last(k))]]

\* C24: the section assembler partitions the ordered block stream: every
\* TITLE block opens a new section whose title is its text and whose anchor
\* page is its page; every other block belongs to exactly one section, that
\* of the nearest preceding TITLE, or the single untitled leading section
\* when no TITLE precedes it; blocks inside a section and sections follow
\* block_index order.
C24_SectionsPartitionBlocks ==
    Built =>
        \A ordered \in {OrderedBlocks(blocks)} :
            \A expected \in {PartitionByTitles(ordered)} :
                /\ Sections(ordered) = expected
                /\ Len(built) = Len(expected)
                /\ \A k \in 1..Len(built) :
                       /\ built[k].page = expected[k].page
                       /\ built[k].title_text = expected[k].title
                       /\ built[k].units = SectionUnits(expected[k])

\* an untitled leading section, then two titled sections of which one has its
\* content on the page after its title
WitnessC24 ==
    /\ Built
    /\ Len(built) = 3
    /\ built[1].title_text = <<>>
    /\ \E i \in 1..(Len(blocks) - 1) :
           /\ blocks[i].block_type = "TITLE"
           /\ blocks[i + 1].block_type # "TITLE"
           /\ blocks[i].page_number < blocks[i + 1].page_number

(***************************************************************************)
(* Properties of calls that are not serialized (SpecRace)                  *)
(***************************************************************************)
Done == {w \in Workers : pc[w] = "done"}

ComputedChunks == build_contextual_chunks(blocks, assets, DEFAULT_MAX_CHARS)

\* C26: two calls of embed_and_store_chunks with overwrite=false that both
\* look for an existing chunk before either commits both insert their
\* chunks: nothing in the engine (no lock, no claim step, no uniqueness
\* constraint on chunks) stops the second, so the document holds one copy of
\* its chunk set for each call that passed the check and committed, and a
\* call is skipped only when a commit came before its check.
C26_UnserializedCallsBothInsert ==
    /\ chunks = join(<<>>, [i \in 1..Cardinality(Done) |-> ComputedChunks])
    /\ \A w \in Workers :
           pc[w] = "skipped" => (Done # {} /\ ComputedChunks # <<>>)

\* both calls have committed, and the document holds its chunk set twice
WitnessC26 ==
    /\ Done = Workers
    /\ ComputedChunks # <<>>
    /\ chunks = ComputedChunks \o ComputedChunks

(***************************************************************************)
(* Properties of the splitter (SpecChunk)                                  *)
(***************************************************************************)
\* the chunk before chunk c of a trace was closed on a unit with a
\* paragraph_text, which seeds chunk c
OpensWithSeed(trace, c) ==
    /\ c > 1
    /\ trace[c - 1].why = "overflow"
    /\ \A last \in {trace[c - 1].units[Len(trace[c - 1].units)]} :
           last.paragraph_text # None /\ last.paragraph_text # <<>>

\* the units of chunk c without the seed that opens it
OwnUnits(trace, c) ==
    IF OpensWithSeed(trace, c) THEN Tail(trace[c].units) ELSE trace[c].units

\* C27: within a section the splitter neither drops, duplicates nor reorders
\* units: with the overlap seed that opens each chunk after an overflow
\* removed, the units of the section's chunks, in chunk order, are the
\* section's unit sequence, each unit once; and a section of n >= 1 units
\* has at most n chunks.
C27_SplitterKeepsUnits ==
    Built =>
        \A k \in 1..Len(built) :
            \A trace \in {built[k].trace} :
                built[k].units # <<>> =>
                    /\ join(<<>>, [c \in 1..Len(trace) |-> OwnUnits(trace, c)])
                           = built[k].units
                    /\ \A c \in 1..Len(trace) : OwnUnits(trace, c) # <<>>
                    /\ Len(trace) <= Len(built[k].units)
                    /\ Len(built[k].texts) = Len(trace)

\* a section of three units in three chunks, the second and the third opened
\* by a seed
WitnessC27 ==
    /\ Built
    /\ \E k \in 1..Len(built) :
           /\ Len(built[k].units) = 3
           /\ Len(built[k].trace) = 3
           /\ OpensWithSeed(built[k].trace, 2)
           /\ OpensWithSeed(built[k].trace, 3)

(***************************************************************************)
(* Properties of the chunk pages (SpecChunk)                               *)
(***************************************************************************)
\* the chunk dicts of section k when each carries the page given
ChunksOnPage(k, page) ==
    [i \in 1..Len(built[k].texts) |-> [page |-> page, text |-> built[k].texts[i]]]

\* C29: every chunk of a section carries the section's anchor page: the page
\* of the TITLE block of a titled section, the page of the first content
\* block of the untitled leading section, whatever pages the blocks of the
\* section lie on.  So chunk pages never decrease in output order, and the
\* caption text a section's last chunk receives is that of the anchor page,
\* not that of the pages of its content.
C29_ChunksCarryAnchorPage ==
    Built =>
        \A anchors \in {PartitionByTitles(OrderedBlocks(blocks))} :
        \A out \in {build_contextual_chunks(blocks, assets, call.max_chars)} :
            /\ Len(built) = Len(anchors)
            /\ out = join(<<>>, [k \in 1..Len(built) |->
                                    ChunksOnPage(k, anchors[k].page)])
            /\ \A m, n \in 1..Len(out) : m < n => out[m].page <= out[n].page
            /\ \A k \in 1..Len(built) :
                   \A i \in 1..Len(built[k].texts) :
                       IF i = Len(built[k].texts)
                          /\ CaptionText(anchors[k].page) # <<>>
                       THEN built[k].texts[i]
                                = strip(built[k].trace[i].text \o NL
                                        \o CaptionText(anchors[k].page))
                       ELSE ~ReceivedCaption(<<k, i>>)

\* a section whose title lies on page 1 and whose content lies on page 2,
\* where page 2 has a caption and page 1 has none: its chunks carry page 1
\* and no caption
WitnessC29 ==
    /\ Built
    /\ CaptionText(1) = <<>>
    /\ CaptionText(2) # <<>>
    /\ \E k \in 1..Len(built) :
           /\ built[k].title_text # <<>>
           /\ built[k].page = 1
           /\ built[k].units # <<>>
           /\ \A b \in {PartitionByTitles(OrderedBlocks(blocks))[k].blocks} :
                  b # <<>> /\ \A j \in 1..Len(b) : b[j].page_number = 2
           /\ \A i \in 1..Len(built[k].texts) : ~ReceivedCaption(<<k, i>>)

====
